---- MODULE Spec2Model ----
(***************************************************************************)
(* A model of the MJIT engine of yarv-mjit (mjit.c): the worker thread,    *)
(* the unit queue, the PCH build, the GC hooks and engine shutdown.        *)
(*                                                                         *)
(* Two threads run: the worker (worker(), started by mjit_init) and the    *)
(* mutator, the interpreter thread that calls the engine's entry points.   *)
(* A critical section that neither waits nor is observed from outside the  *)
(* mutex is one step; unlocked reads and writes are steps of their own.    *)
(*                                                                         *)
(* The translator (mjit_compile.c) is modelled as a machine of its own,    *)
(* CompileSpec: one step per compile_insn call, followed by a run of the   *)
(* emitted function and a run of the interpreter on the same body.         *)
(***************************************************************************)
EXTENDS Integers, FiniteSets, Sequences, TLC

\* ------------------------------------------------------------------ bounds
NumBodies == 2
MaxUnits == 2
MaxCalls == 1

\* --------------------------------------------------------- program constants
NULL == 0
NOT_ADDED_JIT_ISEQ_FUNC == 0
NOT_COMPILABLE_JIT_ISEQ_FUNC == 2
LAST_JIT_ISEQ_FUNC == 3

PCH_NOT_READY == "PCH_NOT_READY"
PCH_FAILED == "PCH_FAILED"
PCH_SUCCESS == "PCH_SUCCESS"

Bodies == 1..NumBodies
UnitAddrs == 1..MaxUnits

\* The address dlsym returns for the entry symbol "_mjit<id>" of unit id: a
\* pointer above LAST_JIT_ISEQ_FUNC.
FuncAddr(id) == LAST_JIT_ISEQ_FUNC + 1 + id

\* struct rb_mjit_unit, as ZALLOC returns it (all fields zero).
ZeroUnit == [id |-> 0, handle |-> NULL, next |-> NULL, prev |-> NULL, iseq |-> NULL]

\* ------------------------------------------------ bytecode and its values
\* VALUEs a body of the model can produce, and the sentinel Qundef.
Qnil == "Qnil"
Qfalse == "Qfalse"
Qtrue == "Qtrue"
Qundef == "Qundef"
Values == {Qnil, Qfalse, Qtrue}

RTEST(v) == v \notin {Qnil, Qfalse}
NIL_P(v) == v = Qnil
\* TYPE(v), for the three values of the model.
TYPE(v) == IF v = Qnil THEN "T_NIL" ELSE IF v = Qtrue THEN "T_TRUE" ELSE "T_FALSE"

\* One instruction of iseq_encoded with its operands: an opcode, a numeric
\* operand (count, index, branch offset or argc) and a symbolic one (the
\* object of putobject, the type of branchiftype, what the call cache holds).
\* Positions are counted in instructions: an instruction and its operands
\* occupy one position, so insn_len is 1 and a branch offset is relative to
\* the next instruction.
Insn(op, n, v) == [op |-> op, n |-> n, v |-> v]
insn_len(insn) == 1

\* No body, and no run: the values of the idle translator.
NoBody == [insns |-> <<>>, stack_max |-> 0, opt_table |-> <<>>]
NoRun == [pc |-> 0]

\* The threads of the host other than the one that starts and ends the
\* engine, and a thread that is not in a call. A thread's ZALLOC returns the
\* unit at the thread's own address.
CallerThreads == 1..MaxUnits

NoCall == [pc |-> "idle", iseq |-> NULL, num |-> 0, unit |-> NULL]

\* No call of exec_process in progress.
NoProcess ==
    [pc |-> "idle", pid |-> 0, stat |-> <<"exited", 0>>, exit_code |-> 0,
     child |-> "none", status |-> <<"exited", 0>>]

VARIABLES
    \* engine state (file-scope variables of mjit.c)
    mjit_init_p, pch_status, unit_queue, units, current_unit_num,
    in_gc, in_jit, finish_worker_p, worker_finished,
    mutex,          \* holder of mjit_engine_mutex: "free", "worker", "mutator"
    destroyed,      \* mjit_finish has destroyed the mutex and the condition variables
    \* bytecode bodies (fields of rb_iseq_constant_body) and the host's view of them
    jit_func, jit_unit, alive, gc_running,
    \* worker thread: position, locals, blocked in pthread_cond_wait
    wpc, w_unit, w_func, w_success, w_exit_code, w_stage, w_asleep,
    \* mutator thread: position, locals, blocked in pthread_cond_wait
    mpc, m_iseq, m_unit, m_asleep,
    \* history
    crashed,        \* the process was ended by an invalid memory access
    mutex_misuse,   \* the mutex was destroyed while held, or used after its destruction
    gets_after_finish, \* get_from_unit_queue calls made with finish_worker_p set
    \* temporary files: whether the .c and the .so file of the unit the worker
    \* is processing and the PCH file exist
    c_file, so_file, pch_file,
    \* translator (mjit_compile.c)
    tpc,            \* position: "idle", "loop", "compiled", "jit_run", "vm_run", "done"
    body,           \* the rb_iseq_constant_body passed to mjit_compile
    status,         \* struct compile_status
    branches,       \* the active compile_insns calls, innermost last
    c_src,          \* what has been printed to f, one item per statement
    size_at,        \* history: the stack_size each position was compiled with
    jit,            \* the run of the emitted function
    vm,             \* the run of the interpreter on the same body
    \* one call of exec_process and the child process it starts
    proc,
    \* the other threads of the host: each one's call of mjit_add_iseq_to_process
    callers

engine_vars == <<mjit_init_p, pch_status, unit_queue, units, current_unit_num,
                 in_gc, in_jit, finish_worker_p, worker_finished, mutex, destroyed>>
body_vars == <<jit_func, jit_unit, alive, gc_running>>
worker_vars == <<wpc, w_unit, w_func, w_success, w_exit_code, w_stage, w_asleep>>
mutator_vars == <<mpc, m_iseq, m_unit, m_asleep>>
history_vars == <<crashed, mutex_misuse, gets_after_finish>>
file_vars == <<c_file, so_file, pch_file>>
translator_vars == <<tpc, body, status, branches, c_src, size_at, jit, vm>>
vars == <<engine_vars, body_vars, worker_vars, mutator_vars, history_vars, file_vars,
          translator_vars, proc, callers>>

\* ------------------------------------------------------------------- Init
\* The state of the process before mjit_init: static storage is zero.
Init ==
    /\ mjit_init_p = FALSE
    /\ pch_status = PCH_NOT_READY
    /\ unit_queue = NULL
    /\ units = [u \in UnitAddrs |-> ZeroUnit]
    /\ current_unit_num = 0
    /\ in_gc = FALSE
    /\ in_jit = FALSE
    /\ finish_worker_p = FALSE
    /\ worker_finished = FALSE
    /\ mutex = "free"
    /\ destroyed = FALSE
    /\ jit_func = [b \in Bodies |-> NOT_ADDED_JIT_ISEQ_FUNC]
    /\ jit_unit = [b \in Bodies |-> NULL]
    /\ alive = [b \in Bodies |-> TRUE]
    /\ gc_running = FALSE
    /\ wpc = "no_thread"
    /\ w_unit = NULL
    /\ w_func = NOT_ADDED_JIT_ISEQ_FUNC
    /\ w_success = FALSE
    /\ w_exit_code = 0
    /\ w_stage = "none"
    /\ w_asleep = FALSE
    /\ mpc = "boot"
    /\ m_iseq = NULL
    /\ m_unit = NULL
    /\ m_asleep = FALSE
    /\ crashed = FALSE
    /\ mutex_misuse = FALSE
    /\ gets_after_finish = 0
    /\ c_file = FALSE
    /\ so_file = FALSE
    /\ pch_file = FALSE
    /\ tpc = "idle"
    /\ body = NoBody
    /\ status = [success |-> TRUE, compiled_for_pos |-> <<>>]
    /\ branches = <<>>
    /\ c_src = <<>>
    /\ size_at = <<>>
    /\ jit = NoRun
    /\ vm = NoRun
    /\ proc = NoProcess
    /\ callers = [t \in CallerThreads |-> NoCall]

\* ------------------------------------------------------- the unit queue
\* The while loop of add_to_unit_queue: the last unit of the list that starts
\* at t. fuel bounds the walk: a list without a cycle has at most MaxUnits
\* units, so running out of fuel (NULL) means the loop never ends.
RECURSIVE ListTail(_, _, _)
ListTail(us, t, fuel) ==
    IF us[t].next = NULL THEN t
    ELSE IF fuel = 0 THEN NULL
    ELSE ListTail(us, us[t].next, fuel - 1)

\* add_to_unit_queue(unit) on units us and head q.
add_to_unit_queue(us, q, unit) ==
    IF q = NULL
    THEN [units |-> us, queue |-> unit, hang |-> FALSE]
    ELSE LET tail == ListTail(us, q, MaxUnits)
         IN  IF tail = NULL
             THEN [units |-> us, queue |-> q, hang |-> TRUE]
             ELSE [units |-> [us EXCEPT ![tail].next = unit, ![unit].prev = tail],
                   queue |-> q, hang |-> FALSE]

\* remove_from_unit_queue(unit) on units us and head q.
remove_from_unit_queue(us, q, unit) ==
    LET p == us[unit].prev
        n == us[unit].next
    IN  IF p # NULL /\ n # NULL
        THEN [units |-> [us EXCEPT ![p].next = n, ![n].prev = p], queue |-> q]
        ELSE IF p = NULL /\ n # NULL
        THEN [units |-> [us EXCEPT ![n].prev = NULL], queue |-> n]
        ELSE IF p # NULL /\ n = NULL
        THEN [units |-> [us EXCEPT ![p].next = NULL], queue |-> q]
        ELSE [units |-> us, queue |-> NULL]

\* A scan that replaces the best unit so far on an equal count.
RECURSIVE ScanQueue_mut(_, _, _, _, _)
ScanQueue_mut(us, calls, unit, dequeued, fuel) ==
    IF unit = NULL THEN dequeued
    ELSE IF fuel = 0 THEN -1
    ELSE IF us[unit].iseq = NULL
    THEN ScanQueue_mut(us, calls, us[unit].next, dequeued, fuel - 1)
    ELSE IF dequeued = NULL \/ calls[us[dequeued].iseq] <= calls[us[unit].iseq]
    THEN ScanQueue_mut(us, calls, us[unit].next, unit, fuel - 1)
    ELSE ScanQueue_mut(us, calls, us[unit].next, dequeued, fuel - 1)

\* The for loop of get_from_unit_queue from unit on, with dequeued the best
\* unit so far; calls[b] is what reading body b's total_calls yields. -1 when
\* the loop never ends (the list has a cycle).
RECURSIVE ScanQueue(_, _, _, _, _)
ScanQueue(us, calls, unit, dequeued, fuel) ==
    IF unit = NULL THEN dequeued
    ELSE IF fuel = 0 THEN -1
    ELSE IF us[unit].iseq = NULL
    THEN ScanQueue(us, calls, us[unit].next, dequeued, fuel - 1)
    ELSE IF dequeued = NULL \/ calls[us[dequeued].iseq] < calls[us[unit].iseq]
    THEN ScanQueue(us, calls, us[unit].next, unit, fuel - 1)
    ELSE ScanQueue(us, calls, us[unit].next, dequeued, fuel - 1)

\* get_from_unit_queue() on units us and head q: the unit returned (NULL for
\* none), the list afterwards, and whether the scan never ends.
get_from_unit_queue(us, q, calls) ==
    IF q = NULL
    THEN [unit |-> NULL, units |-> us, queue |-> q, hang |-> FALSE]
    ELSE LET dequeued == ScanQueue(us, calls, q, NULL, MaxUnits)
         IN  IF dequeued = -1
             THEN [unit |-> NULL, units |-> us, queue |-> q, hang |-> TRUE]
             ELSE IF dequeued = NULL
             THEN [unit |-> NULL, units |-> us, queue |-> q, hang |-> FALSE]
             ELSE LET r == remove_from_unit_queue(us, q, dequeued)
                  IN  [unit |-> dequeued, units |-> r.units, queue |-> r.queue,
                       hang |-> FALSE]

\* The values the reads of body->total_calls in get_from_unit_queue can yield:
\* the interpreter counts calls on its own, so each body's counter is any
\* value up to MaxCalls at the time of the scan.
ObservedCalls == [Bodies -> 0..MaxCalls]

\* The units of the list that starts at unit, in the order of their next
\* pointers (the order in which add_to_unit_queue appended them); the walk
\* stops after fuel units.
RECURSIVE QueueSeq(_, _, _)
QueueSeq(us, unit, fuel) ==
    IF unit = NULL \/ fuel = 0 THEN <<>>
    ELSE <<unit>> \o QueueSeq(us, us[unit].next, fuel - 1)

\* Whether the list that starts at q ends within MaxUnits units.
Acyclic(us, q) == q = NULL \/ ListTail(us, q, MaxUnits) # NULL

\* Whether the list that starts at q is a doubly linked list: it ends, the
\* prev of its head is NULL and the prev of every other unit is the unit
\* before it.
WellFormed(us, q) ==
    /\ Acyclic(us, q)
    /\ LET l == QueueSeq(us, q, MaxUnits)
       IN  \A i \in 1..Len(l) :
               us[l[i]].prev = IF i = 1 THEN NULL ELSE l[i - 1]

\* ------------------------------------------------------ external processes
\* What can become of the compiler process start_process starts.
ProcessOutcomes == {"spawn_failed", "exit_0", "exit_1", "signaled"}

\* exec_process: -1 if the process could not be started or was killed by a
\* signal, its exit status otherwise.
exec_process(outcome) ==
    IF outcome = "spawn_failed" THEN -1
    ELSE IF outcome = "exit_0" THEN 0
    ELSE IF outcome = "exit_1" THEN 1
    ELSE -1

\* Whether the output file of the compiler exists once the process has ended:
\* a compiler that exits with status 0 has written it, one that cannot be
\* started or exits with another status leaves none, and one killed by a
\* signal may have written it or not.
OutputAfter(outcome) ==
    IF outcome = "exit_0" THEN {TRUE}
    ELSE IF outcome = "signaled" THEN {TRUE, FALSE}
    ELSE {FALSE}

\* mjit_opts.save_temps: the engine runs with the option off.
save_temps == FALSE

\* ------------------------------------------------------ condition variables
\* pthread_cond_signal / pthread_cond_broadcast on the condition variable the
\* thread at position pos waits on: the value of its asleep flag afterwards.
Wake(pc, pos, asleep) == IF pc = pos THEN FALSE ELSE asleep

\* ------------------------------------------------------------ the mutator
\* What mjit_init can run into.
InitOutcomes == {"ok", "no_header", "mutex_init_failed", "thread_create_failed"}

\* A mjit_init that leaves mjit_init_p set when the worker thread cannot be
\* created.
mjit_init_mut ==
    /\ mpc = "boot"
    /\ ~crashed
    /\ \E outcome \in InitOutcomes :
          /\ mjit_init_p' = (outcome \in {"ok", "thread_create_failed"})
          /\ wpc' = IF outcome = "ok" THEN "pch_start" ELSE "no_thread"
          /\ destroyed' = (outcome = "thread_create_failed")
    /\ pch_status' = PCH_NOT_READY
    /\ finish_worker_p' = FALSE
    /\ worker_finished' = FALSE
    /\ mpc' = "ready"
    /\ UNCHANGED <<unit_queue, units, current_unit_num, in_gc, in_jit, mutex>>
    /\ UNCHANGED <<body_vars, history_vars, m_iseq, m_unit, m_asleep>>
    /\ UNCHANGED <<w_unit, w_func, w_success, w_exit_code, w_stage, w_asleep>>
    /\ UNCHANGED file_vars

    /\ UNCHANGED <<translator_vars, proc, callers>>
\* mjit_init(opts), called once, first.
mjit_init ==
    /\ mpc = "boot"
    /\ ~crashed
    /\ \E outcome \in InitOutcomes :
          /\ mjit_init_p' = (outcome = "ok")
          /\ wpc' = IF outcome = "ok" THEN "pch_start" ELSE "no_thread"
          /\ destroyed' = (outcome = "thread_create_failed")
    /\ pch_status' = PCH_NOT_READY
    /\ finish_worker_p' = FALSE
    /\ worker_finished' = FALSE
    /\ mpc' = "ready"
    /\ UNCHANGED <<unit_queue, units, current_unit_num, in_gc, in_jit, mutex>>
    /\ UNCHANGED <<body_vars, history_vars, m_iseq, m_unit, m_asleep>>
    /\ UNCHANGED <<w_unit, w_func, w_success, w_exit_code, w_stage, w_asleep>>
    /\ UNCHANGED file_vars

    /\ UNCHANGED <<translator_vars, proc, callers>>
\* A create_unit that does not record the unit in the body's jit_unit slot
\* when the slot is already set.
create_unit_mut(us, num, ju, iseq, alloc_ok) ==
    IF ~alloc_ok
    THEN [units |-> us, num |-> num, jit_unit |-> ju]
    ELSE LET unit == num + 1
         IN  [units |-> [us EXCEPT ![unit] = [ZeroUnit EXCEPT !.id = num, !.iseq = iseq]],
              num |-> num + 1,
              jit_unit |-> IF ju[iseq] = NULL THEN [ju EXCEPT ![iseq] = unit] ELSE ju]

\* create_unit(iseq): the units, current_unit_num and the bodies' jit_unit
\* afterwards; alloc_ok is whether ZALLOC returned a unit.
create_unit(us, num, ju, iseq, alloc_ok) ==
    IF ~alloc_ok
    THEN [units |-> us, num |-> num, jit_unit |-> ju]
    ELSE LET unit == num + 1
         IN  [units |-> [us EXCEPT ![unit] = [ZeroUnit EXCEPT !.id = num, !.iseq = iseq]],
              num |-> num + 1,
              jit_unit |-> [ju EXCEPT ![iseq] = unit]]

\* A mjit_add_iseq_to_process that does not test mjit_init_p.
mjit_add_iseq_to_process_mut ==
    /\ mpc = "ready"
    /\ ~crashed
    /\ ~gc_running
    /\ \E b \in Bodies, alloc_ok \in BOOLEAN :
          /\ alive[b]
          /\ alloc_ok => current_unit_num < MaxUnits
          /\ LET r == create_unit(units, current_unit_num, jit_unit, b, alloc_ok)
             IN  /\ units' = r.units
                 /\ current_unit_num' = r.num
                 /\ jit_unit' = r.jit_unit
                 /\ m_unit' = r.jit_unit[b]
                 /\ mpc' = IF r.jit_unit[b] = NULL THEN "ready" ELSE "add_enqueue"
    /\ UNCHANGED <<mjit_init_p, pch_status, unit_queue, in_gc, in_jit, finish_worker_p,
                   worker_finished, mutex, destroyed>>
    /\ UNCHANGED <<jit_func, alive, gc_running>>
    /\ UNCHANGED <<worker_vars, history_vars, m_iseq, m_asleep>>
    /\ UNCHANGED file_vars

    /\ UNCHANGED <<translator_vars, proc, callers>>
\* mjit_add_iseq_to_process(iseq) up to its critical section: the test of
\* mjit_init_p, create_unit and the test of iseq->body->jit_unit.
mjit_add_iseq_to_process ==
    /\ mpc = "ready"
    /\ ~crashed
    /\ ~gc_running
    /\ \E b \in Bodies, alloc_ok \in BOOLEAN :
          /\ alive[b]
          /\ alloc_ok => current_unit_num < MaxUnits
          /\ IF ~mjit_init_p
             THEN UNCHANGED <<units, current_unit_num, jit_unit, mpc, m_unit>>
             ELSE LET r == create_unit(units, current_unit_num, jit_unit, b, alloc_ok)
                  IN  /\ units' = r.units
                      /\ current_unit_num' = r.num
                      /\ jit_unit' = r.jit_unit
                      /\ m_unit' = r.jit_unit[b]
                      /\ mpc' = IF r.jit_unit[b] = NULL THEN "ready" ELSE "add_enqueue"
    /\ UNCHANGED <<mjit_init_p, pch_status, unit_queue, in_gc, in_jit, finish_worker_p,
                   worker_finished, mutex, destroyed>>
    /\ UNCHANGED <<jit_func, alive, gc_running>>
    /\ UNCHANGED <<worker_vars, history_vars, m_iseq, m_asleep>>
    /\ UNCHANGED file_vars

    /\ UNCHANGED <<translator_vars, proc, callers>>
\* The critical section of mjit_add_iseq_to_process: add_to_unit_queue and
\* the broadcast on mjit_worker_wakeup.
add_enqueue ==
    /\ mpc = "add_enqueue"
    /\ ~crashed
    /\ mutex = "free"
    /\ LET r == add_to_unit_queue(units, unit_queue, m_unit)
       IN  IF r.hang
           THEN /\ mutex' = "mutator"
                /\ mpc' = "hung"
                /\ UNCHANGED <<units, unit_queue, m_unit, w_asleep>>
           ELSE /\ units' = r.units
                /\ unit_queue' = r.queue
                /\ w_asleep' = Wake(wpc, "w_dequeue", w_asleep)
                /\ mpc' = "ready"
                /\ m_unit' = NULL
                /\ UNCHANGED mutex
    /\ UNCHANGED <<mjit_init_p, pch_status, current_unit_num, in_gc, in_jit,
                   finish_worker_p, worker_finished, destroyed>>
    /\ UNCHANGED <<body_vars, history_vars, m_iseq, m_asleep>>
    /\ UNCHANGED <<wpc, w_unit, w_func, w_success, w_exit_code, w_stage>>
    /\ UNCHANGED file_vars

    /\ UNCHANGED <<translator_vars, proc, callers>>
\* The host starts a garbage collection: mjit_gc_start_hook up to its
\* critical section.
mjit_gc_start_hook ==
    /\ mpc = "ready"
    /\ ~crashed
    /\ ~gc_running
    /\ gc_running' = TRUE
    /\ mpc' = IF mjit_init_p THEN "gc_start_wait" ELSE "ready"
    /\ UNCHANGED <<engine_vars, worker_vars, history_vars>>
    /\ UNCHANGED <<jit_func, jit_unit, alive, m_iseq, m_unit, m_asleep>>
    /\ UNCHANGED file_vars

    /\ UNCHANGED <<translator_vars, proc, callers>>
\* The critical section of mjit_gc_start_hook, entered or re-entered after a
\* wakeup: wait on mjit_client_wakeup while in_jit, then set in_gc.
gc_start_wait ==
    /\ mpc = "gc_start_wait"
    /\ ~crashed
    /\ ~m_asleep
    /\ mutex = "free"
    /\ IF in_jit
       THEN /\ m_asleep' = TRUE
            /\ UNCHANGED <<in_gc, mpc>>
       ELSE /\ in_gc' = TRUE
            /\ mpc' = "ready"
            /\ UNCHANGED m_asleep
    /\ UNCHANGED <<mjit_init_p, pch_status, unit_queue, units, current_unit_num, in_jit,
                   finish_worker_p, worker_finished, mutex, destroyed>>
    /\ UNCHANGED <<body_vars, worker_vars, history_vars, m_iseq, m_unit>>
    /\ UNCHANGED file_vars

    /\ UNCHANGED <<translator_vars, proc, callers>>
\* The host ends its garbage collection: mjit_gc_finish_hook up to its
\* critical section.
mjit_gc_finish_hook ==
    /\ mpc = "ready"
    /\ ~crashed
    /\ gc_running
    /\ IF mjit_init_p
       THEN /\ mpc' = "gc_finish_cs"
            /\ UNCHANGED gc_running
       ELSE /\ gc_running' = FALSE
            /\ UNCHANGED mpc
    /\ UNCHANGED <<engine_vars, worker_vars, history_vars>>
    /\ UNCHANGED <<jit_func, jit_unit, alive, m_iseq, m_unit, m_asleep>>
    /\ UNCHANGED file_vars

    /\ UNCHANGED <<translator_vars, proc, callers>>
\* The critical section of mjit_gc_finish_hook: clear in_gc and broadcast
\* mjit_gc_wakeup.
gc_finish_cs ==
    /\ mpc = "gc_finish_cs"
    /\ ~crashed
    /\ mutex = "free"
    /\ in_gc' = FALSE
    /\ w_asleep' = Wake(wpc, "w_gc_wait", w_asleep)
    /\ gc_running' = FALSE
    /\ mpc' = "ready"
    /\ UNCHANGED <<mjit_init_p, pch_status, unit_queue, units, current_unit_num, in_jit,
                   finish_worker_p, worker_finished, mutex, destroyed>>
    /\ UNCHANGED <<jit_func, jit_unit, alive, history_vars>>
    /\ UNCHANGED <<wpc, w_unit, w_func, w_success, w_exit_code, w_stage>>
    /\ UNCHANGED <<m_iseq, m_unit, m_asleep>>
    /\ UNCHANGED file_vars

    /\ UNCHANGED <<translator_vars, proc, callers>>
\* The collector frees a body: mjit_free_iseq(iseq) up to its critical
\* section. Bodies are freed during a collection only.
mjit_free_iseq ==
    /\ mpc = "ready"
    /\ ~crashed
    /\ gc_running
    /\ \E b \in Bodies :
          /\ alive[b]
          /\ IF mjit_init_p
             THEN /\ mpc' = "free_cs"
                  /\ m_iseq' = b
                  /\ UNCHANGED alive
             ELSE /\ alive' = [alive EXCEPT ![b] = FALSE]
                  /\ UNCHANGED <<mpc, m_iseq>>
    /\ UNCHANGED <<engine_vars, worker_vars, history_vars>>
    /\ UNCHANGED <<jit_func, jit_unit, gc_running, m_unit, m_asleep>>
    /\ UNCHANGED file_vars

    /\ UNCHANGED <<translator_vars, proc, callers>>
\* The critical section of mjit_free_iseq: clear the iseq of the body's unit.
\* The host releases the body's memory when the hook returns.
free_cs ==
    /\ mpc = "free_cs"
    /\ ~crashed
    /\ mutex = "free"
    /\ units' = IF jit_unit[m_iseq] # NULL
                THEN [units EXCEPT ![jit_unit[m_iseq]].iseq = NULL]
                ELSE units
    /\ alive' = [alive EXCEPT ![m_iseq] = FALSE]
    /\ mpc' = "ready"
    /\ m_iseq' = NULL
    /\ UNCHANGED <<mjit_init_p, pch_status, unit_queue, current_unit_num, in_gc, in_jit,
                   finish_worker_p, worker_finished, mutex, destroyed>>
    /\ UNCHANGED <<jit_func, jit_unit, gc_running>>
    /\ UNCHANGED <<worker_vars, history_vars, m_unit, m_asleep>>
    /\ UNCHANGED file_vars

    /\ UNCHANGED <<translator_vars, proc, callers>>
\* mjit_finish(): the test of mjit_init_p; it returns at once when the engine is
\* not initialized.
mjit_finish ==
    /\ mpc = "ready"
    /\ ~crashed
    /\ ~gc_running
    /\ mpc' = IF mjit_init_p THEN "finish_wait_pch" ELSE "finished"
    /\ UNCHANGED <<engine_vars, body_vars, worker_vars, history_vars>>
    /\ UNCHANGED <<m_iseq, m_unit, m_asleep>>
    /\ UNCHANGED file_vars

    /\ UNCHANGED <<translator_vars, proc, callers>>
\* mjit_finish: the critical section that waits on mjit_pch_wakeup while
\* pch_status is PCH_NOT_READY, entered or re-entered after a wakeup.
finish_wait_pch ==
    /\ mpc = "finish_wait_pch"
    /\ ~crashed
    /\ ~m_asleep
    /\ mutex = "free"
    /\ IF pch_status = PCH_NOT_READY
       THEN /\ m_asleep' = TRUE
            /\ UNCHANGED mpc
       ELSE /\ mpc' = "finish_stop"
            /\ UNCHANGED m_asleep
    /\ UNCHANGED <<engine_vars, body_vars, worker_vars, history_vars>>
    /\ UNCHANGED <<m_iseq, m_unit>>
    /\ UNCHANGED file_vars

    /\ UNCHANGED <<translator_vars, proc, callers>>
\* mjit_finish: finish_worker_p = TRUE, outside the mutex.
finish_stop ==
    /\ mpc = "finish_stop"
    /\ ~crashed
    /\ finish_worker_p' = TRUE
    /\ mpc' = "finish_poll"
    /\ UNCHANGED <<mjit_init_p, pch_status, unit_queue, units, current_unit_num, in_gc,
                   in_jit, worker_finished, mutex, destroyed>>
    /\ UNCHANGED <<body_vars, worker_vars, history_vars>>
    /\ UNCHANGED <<m_iseq, m_unit, m_asleep>>
    /\ UNCHANGED file_vars

    /\ UNCHANGED <<translator_vars, proc, callers>>
\* mjit_finish: the test of the loop while (!worker_finished), outside the
\* mutex.
finish_poll ==
    /\ mpc = "finish_poll"
    /\ ~crashed
    /\ mpc' = IF worker_finished THEN "finish_destroy" ELSE "finish_broadcast"
    /\ UNCHANGED <<engine_vars, body_vars, worker_vars, history_vars>>
    /\ UNCHANGED <<m_iseq, m_unit, m_asleep>>
    /\ UNCHANGED file_vars

    /\ UNCHANGED <<translator_vars, proc, callers>>
\* mjit_finish: the body of that loop, a critical section that broadcasts
\* mjit_worker_wakeup.
finish_broadcast ==
    /\ mpc = "finish_broadcast"
    /\ ~crashed
    /\ mutex = "free"
    /\ w_asleep' = Wake(wpc, "w_dequeue", w_asleep)
    /\ mpc' = "finish_poll"
    /\ UNCHANGED <<engine_vars, body_vars, history_vars>>
    /\ UNCHANGED <<wpc, w_unit, w_func, w_success, w_exit_code, w_stage>>
    /\ UNCHANGED <<m_iseq, m_unit, m_asleep>>
    /\ UNCHANGED file_vars

    /\ UNCHANGED <<translator_vars, proc, callers>>
\* mjit_finish: pthread_mutex_destroy and the four pthread_cond_destroy.
finish_destroy ==
    /\ mpc = "finish_destroy"
    /\ ~crashed
    /\ destroyed' = TRUE
    /\ mutex_misuse' = (mutex_misuse \/ mutex # "free")
    /\ mpc' = "finish_cleanup"
    /\ UNCHANGED <<mjit_init_p, pch_status, unit_queue, units, current_unit_num, in_gc,
                   in_jit, finish_worker_p, worker_finished, mutex>>
    /\ UNCHANGED <<body_vars, worker_vars>>
    /\ UNCHANGED <<crashed, gets_after_finish>>
    /\ UNCHANGED <<m_iseq, m_unit, m_asleep>>
    /\ UNCHANGED file_vars

    /\ UNCHANGED <<translator_vars, proc, callers>>
\* mjit_finish: the removal of the temporary files and mjit_init_p = FALSE.
\* The interpreter calls mjit_finish once, when it shuts down.
finish_cleanup ==
    /\ mpc = "finish_cleanup"
    /\ ~crashed
    /\ mjit_init_p' = FALSE
    /\ mpc' = "finished"
    /\ UNCHANGED <<pch_status, unit_queue, units, current_unit_num, in_gc, in_jit,
                   finish_worker_p, worker_finished, mutex, destroyed>>
    /\ UNCHANGED <<body_vars, worker_vars, history_vars>>
    /\ UNCHANGED <<m_iseq, m_unit, m_asleep>>

    /\ UNCHANGED <<translator_vars, proc, callers>>
    /\ pch_file' = IF ~save_temps THEN FALSE ELSE pch_file
    /\ UNCHANGED <<c_file, so_file>>
\* The positions of the host thread at which its next step is a critical
\* section: the step runs between CRITICAL_SECTION_START and
\* CRITICAL_SECTION_FINISH, holding mjit_engine_mutex.
MutatorCriticalSections ==
    {"add_enqueue", "gc_start_wait", "gc_finish_cs", "free_cs", "finish_wait_pch",
     "finish_broadcast"}

\* ------------------------------------------------------------- the worker
\* The unlock that ends a critical section the worker holds across steps.
\* Unlocking a destroyed mutex is recorded as a misuse.
WorkerUnlock ==
    /\ mutex' = "free"
    /\ mutex_misuse' = (mutex_misuse \/ destroyed)

\* make_pch: form_args, which fails when xmalloc returns NULL.
make_pch ==
    /\ wpc = "pch_start"
    /\ ~crashed
    /\ \E args_ok \in BOOLEAN :
          wpc' = IF args_ok THEN "pch_exec" ELSE "pch_args_failed"
    /\ UNCHANGED <<engine_vars, body_vars, mutator_vars, history_vars>>
    /\ UNCHANGED <<w_unit, w_func, w_success, w_exit_code, w_stage, w_asleep>>
    /\ UNCHANGED file_vars

    /\ UNCHANGED <<translator_vars, proc, callers>>
\* make_pch, args == NULL: the critical section that sets PCH_FAILED. No
\* condition variable is signalled on this path.
pch_args_failed ==
    /\ wpc = "pch_args_failed"
    /\ ~crashed
    /\ mutex = "free"
    /\ pch_status' = PCH_FAILED
    /\ wpc' = "pch_check"
    /\ UNCHANGED <<mjit_init_p, unit_queue, units, current_unit_num, in_gc, in_jit,
                   finish_worker_p, worker_finished, mutex, destroyed>>
    /\ UNCHANGED <<body_vars, mutator_vars, history_vars>>
    /\ UNCHANGED <<w_unit, w_func, w_success, w_exit_code, w_stage, w_asleep>>
    /\ UNCHANGED file_vars

    /\ UNCHANGED <<translator_vars, proc, callers>>
\* make_pch: exec_process(cc_path, args); the step is the end of the compiler
\* process.
pch_exec ==
    /\ wpc = "pch_exec"
    /\ ~crashed
    /\ \E outcome \in ProcessOutcomes :
          /\ w_exit_code' = exec_process(outcome)
          /\ pch_file' \in OutputAfter(outcome)
    /\ UNCHANGED <<c_file, so_file>>
    /\ wpc' = "pch_done"
    /\ UNCHANGED <<engine_vars, body_vars, mutator_vars, history_vars>>
    /\ UNCHANGED <<w_unit, w_func, w_success, w_stage, w_asleep>>

    /\ UNCHANGED <<translator_vars, proc, callers>>
\* make_pch without the else branch of line 486: a failed compiler leaves
\* pch_status as it was.
pch_done_mut ==
    /\ wpc = "pch_done"
    /\ ~crashed
    /\ mutex = "free"
    /\ pch_status' = IF w_exit_code = 0 THEN PCH_SUCCESS ELSE pch_status
    /\ m_asleep' = Wake(mpc, "finish_wait_pch", m_asleep)
    /\ w_exit_code' = 0
    /\ wpc' = "pch_check"
    /\ UNCHANGED <<mjit_init_p, unit_queue, units, current_unit_num, in_gc, in_jit,
                   finish_worker_p, worker_finished, mutex, destroyed>>
    /\ UNCHANGED <<body_vars, history_vars, mpc, m_iseq, m_unit>>
    /\ UNCHANGED <<w_unit, w_func, w_success, w_stage, w_asleep>>
    /\ UNCHANGED file_vars

    /\ UNCHANGED <<translator_vars, proc, callers>>
\* make_pch: the critical section that sets pch_status from the exit code and
\* broadcasts mjit_pch_wakeup.
pch_done ==
    /\ wpc = "pch_done"
    /\ ~crashed
    /\ mutex = "free"
    /\ pch_status' = IF w_exit_code = 0 THEN PCH_SUCCESS ELSE PCH_FAILED
    /\ m_asleep' = Wake(mpc, "finish_wait_pch", m_asleep)
    /\ w_exit_code' = 0
    /\ wpc' = "pch_check"
    /\ UNCHANGED <<mjit_init_p, unit_queue, units, current_unit_num, in_gc, in_jit,
                   finish_worker_p, worker_finished, mutex, destroyed>>
    /\ UNCHANGED <<body_vars, history_vars, mpc, m_iseq, m_unit>>
    /\ UNCHANGED <<w_unit, w_func, w_success, w_stage, w_asleep>>
    /\ UNCHANGED file_vars

    /\ UNCHANGED <<translator_vars, proc, callers>>
\* worker: the test of pch_status after make_pch, and mjit_init_p = FALSE
\* (written outside the mutex) when the PCH failed.
pch_check ==
    /\ wpc = "pch_check"
    /\ ~crashed
    /\ IF pch_status = PCH_FAILED
       THEN /\ mjit_init_p' = FALSE
            /\ wpc' = "fail_lock"
       ELSE /\ wpc' = "w_loop"
            /\ UNCHANGED mjit_init_p
    /\ UNCHANGED <<pch_status, unit_queue, units, current_unit_num, in_gc, in_jit,
                   finish_worker_p, worker_finished, mutex, destroyed>>
    /\ UNCHANGED <<body_vars, mutator_vars, history_vars>>
    /\ UNCHANGED <<w_unit, w_func, w_success, w_exit_code, w_stage, w_asleep>>
    /\ UNCHANGED file_vars

    /\ UNCHANGED <<translator_vars, proc, callers>>
\* worker, PCH failed: lock the mutex and set worker_finished.
fail_lock ==
    /\ wpc = "fail_lock"
    /\ ~crashed
    /\ mutex = "free"
    /\ mutex' = "worker"
    /\ worker_finished' = TRUE
    /\ wpc' = "fail_unlock"
    /\ UNCHANGED <<mjit_init_p, pch_status, unit_queue, units, current_unit_num, in_gc,
                   in_jit, finish_worker_p, destroyed>>
    /\ UNCHANGED <<body_vars, mutator_vars, history_vars>>
    /\ UNCHANGED <<w_unit, w_func, w_success, w_exit_code, w_stage, w_asleep>>
    /\ UNCHANGED file_vars

    /\ UNCHANGED <<translator_vars, proc, callers>>
\* worker, PCH failed: signal mjit_client_wakeup, unlock and return.
fail_unlock ==
    /\ wpc = "fail_unlock"
    /\ ~crashed
    /\ m_asleep' = Wake(mpc, "gc_start_wait", m_asleep)
    /\ WorkerUnlock
    /\ wpc' = "w_done"
    /\ UNCHANGED <<mjit_init_p, pch_status, unit_queue, units, current_unit_num, in_gc,
                   in_jit, finish_worker_p, worker_finished, destroyed>>
    /\ UNCHANGED <<body_vars, mpc, m_iseq, m_unit>>
    /\ UNCHANGED <<crashed, gets_after_finish>>
    /\ UNCHANGED <<w_unit, w_func, w_success, w_exit_code, w_stage, w_asleep>>
    /\ UNCHANGED file_vars

    /\ UNCHANGED <<translator_vars, proc, callers>>
\* A main loop that does not test finish_worker_p.
worker_loop_cond_mut == TRUE

\* The condition of the main loop of worker, read outside the mutex.
worker_loop_cond == ~finish_worker_p

\* worker: the test of the main loop.
w_loop ==
    /\ wpc = "w_loop"
    /\ ~crashed
    /\ wpc' = IF worker_loop_cond THEN "w_dequeue" ELSE "end_lock"
    /\ UNCHANGED <<engine_vars, body_vars, mutator_vars, history_vars>>
    /\ UNCHANGED <<w_unit, w_func, w_success, w_exit_code, w_stage, w_asleep>>
    /\ UNCHANGED file_vars

    /\ UNCHANGED <<translator_vars, proc, callers>>
\* The condition under which the worker waits on mjit_worker_wakeup.
worker_wait_cond == unit_queue = NULL /\ ~finish_worker_p

\* worker: the critical section "in worker dequeue", entered or re-entered
\* after a wakeup: wait while worker_wait_cond, then get_from_unit_queue.
w_dequeue ==
    /\ wpc = "w_dequeue"
    /\ ~crashed
    /\ ~w_asleep
    /\ mutex = "free"
    /\ IF worker_wait_cond
       THEN /\ w_asleep' = TRUE
            /\ UNCHANGED <<units, unit_queue, w_unit, wpc, mutex, gets_after_finish>>
       ELSE /\ \E calls \in ObservedCalls :
                  LET r == get_from_unit_queue(units, unit_queue, calls)
                  IN  /\ units' = r.units
                      /\ unit_queue' = r.queue
                      /\ w_unit' = r.unit
                      /\ mutex' = IF r.hang THEN "worker" ELSE "free"
                      /\ wpc' = IF r.hang THEN "hung"
                                ELSE IF r.unit # NULL THEN "w_gc_wait" ELSE "w_loop"
            /\ gets_after_finish' = IF finish_worker_p /\ gets_after_finish < 2
                                    THEN gets_after_finish + 1
                                    ELSE gets_after_finish
            /\ UNCHANGED w_asleep
    /\ UNCHANGED <<mjit_init_p, pch_status, current_unit_num, in_gc, in_jit,
                   finish_worker_p, worker_finished, destroyed>>
    /\ UNCHANGED <<body_vars, mutator_vars>>
    /\ UNCHANGED <<crashed, mutex_misuse>>
    /\ UNCHANGED <<w_func, w_success, w_exit_code, w_stage>>
    /\ UNCHANGED file_vars

    /\ UNCHANGED <<translator_vars, proc, callers>>
\* A worker that does not wait for the collection to end.
gc_wait_cond_mut == FALSE

\* The condition under which the worker waits on mjit_gc_wakeup.
gc_wait_cond == in_gc

\* convert_unit_to_func: the critical section "before mjit_compile to wait GC
\* finish", entered or re-entered after a wakeup: wait while in_gc, then set
\* in_jit.
w_gc_wait ==
    /\ wpc = "w_gc_wait"
    /\ ~crashed
    /\ ~w_asleep
    /\ mutex = "free"
    /\ IF gc_wait_cond
       THEN /\ w_asleep' = TRUE
            /\ UNCHANGED <<in_jit, wpc>>
       ELSE /\ in_jit' = TRUE
            /\ wpc' = "w_compile"
            /\ UNCHANGED w_asleep
    /\ UNCHANGED <<mjit_init_p, pch_status, unit_queue, units, current_unit_num, in_gc,
                   finish_worker_p, worker_finished, mutex, destroyed>>
    /\ UNCHANGED <<body_vars, mutator_vars, history_vars>>
    /\ UNCHANGED <<w_unit, w_func, w_success, w_exit_code, w_stage>>

    /\ UNCHANGED <<translator_vars, proc, callers>>
    /\ c_file' = TRUE
    /\ UNCHANGED <<so_file, pch_file>>
\* A read through unit->iseq by the worker, at a place where the code does not
\* test the pointer: a NULL iseq or the iseq of a freed body is an invalid
\* access, which either ends the process or yields arbitrary data. The
\* conjunct gives crashed its next value.
DerefIseq(unit) ==
    LET b == units[unit].iseq
    IN  IF b = NULL \/ ~alive[b]
        THEN crashed' \in BOOLEAN
        ELSE crashed' = crashed

\* convert_unit_to_func: the message "start compile" and mjit_compile, which
\* read unit->iseq->body; the translator reports success or failure.
w_compile ==
    /\ wpc = "w_compile"
    /\ ~crashed
    /\ DerefIseq(w_unit)
    /\ \E success \in BOOLEAN : w_success' = success
    /\ wpc' = "w_after_compile"
    /\ UNCHANGED <<engine_vars, body_vars, mutator_vars>>
    /\ UNCHANGED <<mutex_misuse, gets_after_finish>>
    /\ UNCHANGED <<w_unit, w_func, w_exit_code, w_stage, w_asleep>>
    /\ UNCHANGED file_vars

    /\ UNCHANGED <<translator_vars, proc, callers>>
\* A convert_unit_to_func that returns the not-added value when the compiler
\* fails.
convert_unit_to_func_result_mut(stage, id) ==
    IF stage = "translate_failed" THEN NOT_COMPILABLE_JIT_ISEQ_FUNC
    ELSE IF stage = "cc_failed" THEN NOT_ADDED_JIT_ISEQ_FUNC
    ELSE IF stage = "load_failed" THEN NOT_ADDED_JIT_ISEQ_FUNC
    ELSE FuncAddr(id)

\* The value convert_unit_to_func returns on each of its exit paths.
convert_unit_to_func_result(stage, id) ==
    IF stage = "translate_failed" THEN NOT_COMPILABLE_JIT_ISEQ_FUNC
    ELSE IF stage = "cc_failed" THEN NOT_COMPILABLE_JIT_ISEQ_FUNC
    ELSE IF stage = "load_failed" THEN NOT_ADDED_JIT_ISEQ_FUNC
    ELSE FuncAddr(id)

\* A convert_unit_to_func that keeps in_jit set after mjit_compile.
w_after_compile_mut ==
    /\ wpc = "w_after_compile"
    /\ ~crashed
    /\ mutex = "free"
    /\ m_asleep' = Wake(mpc, "gc_start_wait", m_asleep)
    /\ IF ~w_success
       THEN /\ w_stage' = "translate_failed"
            /\ w_func' = convert_unit_to_func_result("translate_failed", units[w_unit].id)
            /\ wpc' = "w_publish"
       ELSE /\ wpc' = "w_cc"
            /\ UNCHANGED <<w_stage, w_func>>
    /\ w_success' = FALSE
    /\ UNCHANGED <<mjit_init_p, pch_status, unit_queue, units, current_unit_num, in_gc,
                   in_jit, finish_worker_p, worker_finished, mutex, destroyed>>
    /\ UNCHANGED <<body_vars, history_vars, mpc, m_iseq, m_unit>>
    /\ UNCHANGED <<w_unit, w_exit_code, w_asleep>>

    /\ UNCHANGED <<translator_vars, proc, callers>>
    /\ c_file' = IF ~w_success /\ ~save_temps THEN FALSE ELSE c_file
    /\ UNCHANGED <<so_file, pch_file>>
\* convert_unit_to_func: the critical section "after mjit_compile to wakeup
\* client for GC", then the return when the translator failed.
w_after_compile ==
    /\ wpc = "w_after_compile"
    /\ ~crashed
    /\ mutex = "free"
    /\ in_jit' = FALSE
    /\ m_asleep' = Wake(mpc, "gc_start_wait", m_asleep)
    /\ IF ~w_success
       THEN /\ w_stage' = "translate_failed"
            /\ w_func' = convert_unit_to_func_result("translate_failed", units[w_unit].id)
            /\ wpc' = "w_publish"
       ELSE /\ wpc' = "w_cc"
            /\ UNCHANGED <<w_stage, w_func>>
    /\ w_success' = FALSE
    /\ UNCHANGED <<mjit_init_p, pch_status, unit_queue, units, current_unit_num, in_gc,
                   finish_worker_p, worker_finished, mutex, destroyed>>
    /\ UNCHANGED <<body_vars, history_vars, mpc, m_iseq, m_unit>>
    /\ UNCHANGED <<w_unit, w_exit_code, w_asleep>>

    /\ UNCHANGED <<translator_vars, proc, callers>>
    /\ c_file' = IF ~w_success /\ ~save_temps THEN FALSE ELSE c_file
    /\ UNCHANGED <<so_file, pch_file>>
\* compile_c_to_so: FALSE when form_args fails, else whether the compiler
\* exited with status 0.
compile_c_to_so(args_ok, outcome) ==
    IF ~args_ok THEN FALSE ELSE exec_process(outcome) = 0

\* convert_unit_to_func: compile_c_to_so and the return when it failed; the
\* step is the end of the compiler process.
w_cc ==
    /\ wpc = "w_cc"
    /\ ~crashed
    /\ \E args_ok \in BOOLEAN, outcome \in ProcessOutcomes :
          /\ IF compile_c_to_so(args_ok, outcome)
             THEN /\ wpc' = "w_load"
                  /\ UNCHANGED <<w_stage, w_func>>
             ELSE /\ w_stage' = "cc_failed"
                  /\ w_func' = convert_unit_to_func_result("cc_failed", units[w_unit].id)
                  /\ wpc' = "w_publish"
          /\ IF args_ok
             THEN so_file' \in OutputAfter(outcome)
             ELSE UNCHANGED so_file
    /\ c_file' = IF ~save_temps THEN FALSE ELSE c_file
    /\ UNCHANGED pch_file
    /\ UNCHANGED <<engine_vars, body_vars, mutator_vars, history_vars>>
    /\ UNCHANGED <<w_unit, w_success, w_exit_code, w_asleep>>

    /\ UNCHANGED <<translator_vars, proc, callers>>
\* The handle dlopen returns for the shared object of a unit.
HandleOf(unit) == unit

\* convert_unit_to_func: load_func_from_so, and the message "JIT success",
\* which reads unit->iseq->body when the function pointer is above
\* LAST_JIT_ISEQ_FUNC.
w_load ==
    /\ wpc = "w_load"
    /\ ~crashed
    /\ \E dlopen_ok \in BOOLEAN :
          LET stage == IF dlopen_ok THEN "loaded" ELSE "load_failed"
              func == convert_unit_to_func_result(stage, units[w_unit].id)
          IN  /\ w_stage' = stage
              /\ w_func' = func
              /\ units' = IF dlopen_ok
                          THEN [units EXCEPT ![w_unit].handle = HandleOf(w_unit)]
                          ELSE units
              /\ IF func > LAST_JIT_ISEQ_FUNC
                 THEN DerefIseq(w_unit)
                 ELSE UNCHANGED crashed
    /\ wpc' = "w_publish"
    /\ UNCHANGED <<mjit_init_p, pch_status, unit_queue, current_unit_num, in_gc, in_jit,
                   finish_worker_p, worker_finished, mutex, destroyed>>
    /\ UNCHANGED <<body_vars, mutator_vars>>
    /\ UNCHANGED <<mutex_misuse, gets_after_finish>>
    /\ UNCHANGED <<w_unit, w_success, w_exit_code, w_asleep>>

    /\ UNCHANGED <<translator_vars, proc, callers>>
    /\ so_file' = IF ~save_temps THEN FALSE ELSE so_file
    /\ UNCHANGED <<c_file, pch_file>>
\* worker: the critical section "in jit func replace": ATOMIC_SET of the
\* body's jit_func when unit->iseq is not NULL.
w_publish ==
    /\ wpc = "w_publish"
    /\ ~crashed
    /\ mutex = "free"
    /\ LET b == units[w_unit].iseq
       IN  IF b # NULL
           THEN jit_func' = [jit_func EXCEPT ![b] = w_func]
           ELSE UNCHANGED jit_func
    /\ wpc' = "w_loop"
    /\ w_unit' = NULL
    /\ w_func' = NOT_ADDED_JIT_ISEQ_FUNC
    /\ w_stage' = "none"
    /\ UNCHANGED <<engine_vars, mutator_vars>>
    /\ UNCHANGED <<jit_unit, alive, gc_running>>
    /\ UNCHANGED <<crashed, mutex_misuse, gets_after_finish>>
    /\ UNCHANGED <<w_success, w_exit_code, w_asleep>>

    /\ UNCHANGED <<translator_vars, proc, callers>>
    /\ c_file' = FALSE
    /\ so_file' = FALSE
    /\ UNCHANGED pch_file
\* worker, end of the main loop: lock the mutex and set worker_finished.
end_lock ==
    /\ wpc = "end_lock"
    /\ ~crashed
    /\ mutex = "free"
    /\ mutex' = "worker"
    /\ worker_finished' = TRUE
    /\ wpc' = "end_unlock"
    /\ UNCHANGED <<mjit_init_p, pch_status, unit_queue, units, current_unit_num, in_gc,
                   in_jit, finish_worker_p, destroyed>>
    /\ UNCHANGED <<body_vars, mutator_vars, history_vars>>
    /\ UNCHANGED <<w_unit, w_func, w_success, w_exit_code, w_stage, w_asleep>>
    /\ UNCHANGED file_vars

    /\ UNCHANGED <<translator_vars, proc, callers>>
\* worker, end of the main loop: unlock and return.
end_unlock ==
    /\ wpc = "end_unlock"
    /\ ~crashed
    /\ WorkerUnlock
    /\ wpc' = "w_done"
    /\ UNCHANGED <<mjit_init_p, pch_status, unit_queue, units, current_unit_num, in_gc,
                   in_jit, finish_worker_p, worker_finished, destroyed>>
    /\ UNCHANGED <<body_vars, mutator_vars>>
    /\ UNCHANGED <<crashed, gets_after_finish>>
    /\ UNCHANGED <<w_unit, w_func, w_success, w_exit_code, w_stage, w_asleep>>
    /\ UNCHANGED file_vars

    /\ UNCHANGED <<translator_vars, proc, callers>>
\* pthread_cond_wait may return without a signal.
spurious_wakeup ==
    /\ ~crashed
    /\ \/ /\ w_asleep
          /\ w_asleep' = FALSE
          /\ UNCHANGED m_asleep
       \/ /\ m_asleep
          /\ m_asleep' = FALSE
          /\ UNCHANGED w_asleep
    /\ UNCHANGED <<engine_vars, body_vars, history_vars>>
    /\ UNCHANGED <<wpc, w_unit, w_func, w_success, w_exit_code, w_stage>>
    /\ UNCHANGED <<mpc, m_iseq, m_unit>>
    /\ UNCHANGED file_vars

    /\ UNCHANGED <<translator_vars, proc, callers>>
\* A fork handler that leaves mjit_init_p as it is.
fork_child_mut ==
    /\ mpc = "ready"
    /\ ~crashed
    /\ ~gc_running
    /\ wpc # "child"
    /\ wpc' = "child"
    /\ w_asleep' = FALSE
    /\ UNCHANGED <<engine_vars, body_vars, mutator_vars, history_vars>>
    /\ UNCHANGED <<w_unit, w_func, w_success, w_exit_code, w_stage>>
    /\ UNCHANGED file_vars

    /\ UNCHANGED <<translator_vars, proc, callers>>
\* fork() called by the host thread, followed in the child: the child has a
\* copy of the memory, the mutex in the state it had included, and the host
\* thread only; child_after_fork, registered by mjit_init with
\* pthread_atfork, runs in it.
fork_child ==
    /\ mpc = "ready"
    /\ ~crashed
    /\ ~gc_running
    /\ wpc # "child"
    /\ mjit_init_p' = FALSE
    /\ wpc' = "child"
    /\ w_asleep' = FALSE
    /\ UNCHANGED <<pch_status, unit_queue, units, current_unit_num, in_gc, in_jit,
                   finish_worker_p, worker_finished, mutex, destroyed>>
    /\ UNCHANGED <<body_vars, mutator_vars, history_vars>>
    /\ UNCHANGED <<w_unit, w_func, w_success, w_exit_code, w_stage>>
    /\ UNCHANGED file_vars

    /\ UNCHANGED <<translator_vars, proc, callers>>
\* ------------------------------------------------------- bodies to translate
\* The bodies handed to mjit_compile are drawn from five families, each with
\* its own alphabet and length, so that every case of compile_insn the
\* properties speak of is met on some body.
MaxStackMax == 2        \* stack_max of a body is 0..MaxStackMax
MaxStraight == 3        \* instructions before the leave of a straight-line body
BranchLen == 5          \* length of a body with branches, its last leave included
MaxControl == 2         \* control instructions in such a body
LoopLen == 6            \* length of a body with loops, its last leave included
LoopControl == 3        \* control instructions in such a body
MaxCall == 3            \* instructions before the leave of a body with calls
OptLen == 4             \* length of a body with optional parameters
MaxExitStatus == 2      \* largest exit status of a compiler process

\* The local variables of a body: the index operands of getlocal and setlocal.
Locals == {1}

SeqsUpTo(S, n) == UNION { [1..k -> S] : k \in 0..n }

Leave == Insn("leave", 0, "")

\* Stack and variable instructions, one per case of compile_insn the
\* properties name, and two instructions that have no case.
StraightInsns ==
    { Insn("nop", 0, ""), Insn("putnil", 0, ""), Insn("putobject", 0, Qtrue),
      Insn("pop", 0, ""), Insn("dup", 0, ""), Insn("dupn", 1, ""), Insn("swap", 0, ""),
      Insn("reverse", 2, ""), Insn("reput", 0, ""), Insn("topn", 0, ""),
      Insn("topn", 1, ""), Insn("setn", 1, ""), Insn("adjuststack", 1, ""),
      Insn("getlocal", 1, ""), Insn("setlocal", 1, ""), Insn("getconstant", 0, ""),
      Insn("setconstant", 0, ""), Insn("trace", 0, ""), Insn("trace2", 0, ""),
      Insn("defineclass", 0, "") }

StraightBodies ==
    { [insns |-> s \o <<Leave>>, stack_max |-> m, opt_table |-> <<>>] :
        s \in SeqsUpTo(StraightInsns, MaxStraight), m \in 0..MaxStackMax }

\* A constant assignment: values are pushed, setconstant takes two of them.
ConstantInsns == { Insn("putnil", 0, ""), Insn("getconstant", 0, ""), Insn("setconstant", 0, "") }

ConstantBodies ==
    { [insns |-> s \o <<Leave>>, stack_max |-> MaxStackMax, opt_table |-> <<>>] :
        s \in [1..(MaxStraight + 1) -> ConstantInsns] }

\* A control instruction at index i (position i - 1) of a body: its operand
\* is the offset of the target from the next position.
Control(op, target, i) ==
    Insn(op, target - i, IF op = "branchiftype" THEN "T_NIL" ELSE "")

\* Bodies of length len ending in leave, with control instructions drawn from
\* ops at the indexes P (targets are positions of the body) and instructions
\* of simple at the others.
ControlBodies(len, ops, simple, P, m) ==
    { [insns |-> [i \in 1..len |->
                    IF i = len THEN Leave
                    ELSE IF i \in P THEN Control(f[i][1], f[i][2], i)
                    ELSE g[i]],
       stack_max |-> m, opt_table |-> <<>>] :
      f \in [P -> ops \X (0..(len - 1))],
      g \in [(1..(len - 1)) \ P -> simple] }

BranchInsns ==
    { Insn("putnil", 0, ""), Insn("getlocal", 1, ""), Insn("pop", 0, ""),
      Insn("defineclass", 0, "") }

BranchControls == { P \in SUBSET (1..(BranchLen - 1)) : Cardinality(P) <= MaxControl }

BranchBodies(P) ==
    ControlBodies(BranchLen,
                  {"jump", "branchif", "branchunless", "branchnil", "branchiftype"},
                  BranchInsns, P, MaxStackMax)

LoopControls == { P \in SUBSET (1..(LoopLen - 1)) : Cardinality(P) = LoopControl }

LoopBodies(P) ==
    ControlBodies(LoopLen, {"jump", "branchif"}, { Insn("putnil", 0, "") }, P, MaxStackMax)

\* Calls: what the call cache of a send holds decides how it is compiled.
CallInsns ==
    { Insn("putnil", 0, ""), Insn("putobject", 0, Qtrue), Insn("pop", 0, ""),
      Insn("opt_plus", 0, ""), Insn("opt_not", 0, ""),
      Insn("send", 0, "cfunc"), Insn("send", 1, "other"),
      Insn("opt_send_without_block", 0, "other"),
      Insn("opt_send_without_block", 1, "iseq") }

CallBodies ==
    { [insns |-> s \o <<Leave>>, stack_max |-> MaxStackMax, opt_table |-> <<>>] :
        s \in SeqsUpTo(CallInsns, MaxCall) }

\* Optional parameters: the opt table of a body with one optional parameter
\* holds position 0, where the default value is computed, and the position
\* where the body goes on when the argument is given.
OptInsns == { Insn("putnil", 0, ""), Insn("pop", 0, ""), Leave }

OptTables == { <<0, p>> : p \in 1..(OptLen - 1) }

OptBodies ==
    { [insns |-> s \o <<Leave>>, stack_max |-> m, opt_table |-> t] :
        s \in [1..(OptLen - 1) -> OptInsns], m \in 1..MaxStackMax, t \in OptTables }

\* The bodies without control instructions other than leave.
PlainBodies == StraightBodies \cup ConstantBodies \cup CallBodies \cup OptBodies
\* ------------------------------------------------------------ the translator
\* One statement printed to f: its kind k, up to three numbers and a symbol.
\*   label a            label_<a>:
\*   pc a               cfp->pc = iseq_encoded + a
\*   decl a             VALUE stack[a]
\*   const a v          stack[a] = v
\*   copy a b           stack[a] = stack[b]
\*   memcpy a b c       MEMCPY(stack + a, stack + b, VALUE, c)
\*   swap a b           exchange stack[a] and stack[b] through tmp
\*   reverse a c        reverse the c slots from stack[a]
\*   getlocal a b       stack[a] = *(vm_get_ep(cfp->ep, 0) - b)
\*   setlocal a b       vm_env_write(vm_get_ep(cfp->ep, 0), -b, stack[a])
\*   getconstant a      stack[a] = vm_get_ev_const(ec, stack[a], id, 0)
\*   setconstant a b    rb_const_set(stack[a], id, stack[b])
\*   hook               vm_dtrace and EXEC_EVENT_HOOK
\*   if a b v           if (v(stack[a])) goto label_<b>
\*   goto b             goto label_<b>
\*   return a           vm_pop_frame; return stack[a]
\*   guard a b v        if the call cache is invalid (v: what is compared)
\*                      { cfp->sp = cfp->bp + b; goto cancel; }, receiver stack[a]
\*   call a c v         push stack[a .. a+c] to cfp->sp, call the method (v: how),
\*                      stack[a] = its value
\*   opt a b c v        result = v(stack[a], ...); if (result == Qundef)
\*                      { cfp->sp = cfp->bp + b; goto cancel; } stack[a] = result
\*   switch, case a b, endswitch   the dispatch on cfp->pc - iseq_encoded
\*   cancel             the label cancel:
\*   writeback a b      *(cfp->bp + a) = stack[b]
\*   return_undef       return Qundef
Item(k, a, b, c, v) == [k |-> k, a |-> a, b |-> b, c |-> c, v |-> v]

\* unsigned int compared with >: a stack_size is kept as the int that has the
\* same 32 bits, so a negative number stands for a value above INT_MAX.
UnsignedGreater(x, y) == IF (x < 0) = (y < 0) THEN x > y ELSE x < 0

\* The instructions compile_insn has no case for (the default label): the
\* three the translator leaves out, and trace, which only the older
\* translator handled.
unsupported_insns == {"getblockparamproxy", "defineclass", "opt_call_c_function", "trace"}

\* The conditional branches whose case calls compile_insns for the
\* fall-through and moves next_pos to the target.
recursive_branches == {"branchif", "branchunless", "branchnil"}

\* The test a conditional branch prints.
branch_test(op) ==
    CASE op = "branchif" -> "RTEST"
      [] op = "branchunless" -> "!RTEST"
      [] op = "branchnil" -> "NIL_P"

\* inlinable_cfunc_p(cc) || inlinable_iseq_p(ci, cc, iseq), from what the
\* call cache holds when the instruction is compiled.
inlinable_p(cc) == cc \in {"cfunc", "iseq"}

\* compile_send: the guard, the arguments pushed back and the call; returns
\* the change of stack_size. argc is ci->orig_argc (no block argument).
compile_send(insn, stack_size) ==
    LET argc == insn.n
        recv == stack_size - 1 - argc
    IN  [items |-> << Item("guard", recv, stack_size + 1, 0,
                           IF inlinable_p(insn.v) THEN "method_state_and_class_serial"
                           ELSE "method_state"),
                      Item("call", recv, 0, argc, insn.v) >>,
         change |-> 0 - argc]

\* fprint_opt_call_fallback mutated: sp is set one slot too low.
fprint_opt_call_fallback_mut(stack_size, argc, op) ==
    << Item("opt", stack_size - argc, stack_size, argc, op) >>

\* fprint_opt_call with fprint_opt_call_variables and
\* fprint_opt_call_fallback: one block that computes result from the argc
\* top slots, cancels with sp = bp + stack_size + 1 when it is Qundef and
\* stores it in stack[stack_size - argc] otherwise.
fprint_opt_call_fallback(stack_size, argc, op) ==
    << Item("opt", stack_size - argc, stack_size + 1, argc, op) >>

\* The switch of compile_insn for one instruction that makes no recursive
\* call: what it prints after the cfp->pc line, the new b->stack_size,
\* next_pos, b->finish_p and whether status->success is cleared.
compile_insn(insn, pos, stack_size) ==
    LET op == insn.op
        n == insn.n
        s == stack_size
        R(items, size) == [items |-> items, stack_size |-> size,
                           next_pos |-> pos + insn_len(insn),
                           finish_p |-> FALSE, failed |-> FALSE]
    IN  CASE op = "nop" -> R(<<>>, s)
          [] op = "getlocal" -> R(<<Item("getlocal", s, n, 0, "")>>, s + 1)
          [] op = "setlocal" -> R(<<Item("setlocal", s - 1, n, 0, "")>>, s - 1)
          [] op = "getconstant" -> R(<<Item("getconstant", s - 1, 0, 0, "")>>, s)
          [] op = "setconstant" -> R(<<Item("setconstant", s - 2, s - 1, 0, "")>>, s)
          [] op = "putnil" -> R(<<Item("const", s, 0, 0, Qnil)>>, s + 1)
          [] op = "putobject" -> R(<<Item("const", s, 0, 0, insn.v)>>, s + 1)
          [] op = "pop" -> R(<<>>, s - 1)
          [] op = "dup" -> R(<<Item("copy", s, s - 1, 0, "")>>, s + 1)
          [] op = "dupn" -> R(<<Item("memcpy", s, s - n, n, "")>>, s + n)
          [] op = "swap" -> R(<<Item("swap", s - 1, s - 2, 0, "")>>, s)
          [] op = "reverse" -> R(<<Item("reverse", s - n, 0, n, "")>>, s)
          [] op = "reput" -> R(<<Item("copy", s - 1, s - 1, 0, "")>>, s)
          [] op = "topn" -> R(<<Item("copy", s, s - n, 0, "")>>, s + 1)
          [] op = "setn" -> R(<<Item("copy", s - 1 - n, s - 1, 0, "")>>, s)
          [] op = "adjuststack" -> R(<<>>, s - n)
          [] op = "trace2" -> R(<<Item("hook", 0, 0, 0, "")>>, s)
          [] op \in {"send", "opt_send_without_block"} ->
                LET c == compile_send(insn, s) IN R(c.items, s + c.change)
          [] op = "opt_plus" -> R(fprint_opt_call_fallback(s, 2, "vm_opt_plus"), s + (1 - 2))
          [] op = "opt_not" -> R(fprint_opt_call_fallback(s, 1, "vm_opt_not"), s)
          [] op = "leave" ->
                [items |-> <<Item("return", s - 1, 0, 0, "")>>, stack_size |-> s,
                 next_pos |-> pos + insn_len(insn), finish_p |-> TRUE,
                 failed |-> s # 1]
          [] op = "jump" ->
                [R(<<Item("goto", 0, pos + insn_len(insn) + n, 0, "")>>, s)
                    EXCEPT !.next_pos = pos + insn_len(insn) + n]
          [] op = "branchiftype" ->
                R(<<Item("if", s - 1, pos + insn_len(insn) + n, 0, insn.v)>>, s - 1)
          [] OTHER -> [R(<<>>, s) EXCEPT !.failed = TRUE]

iseq_size == Len(body.insns)

\* The instruction at position pos of the body.
InsnAt(pos) == body.insns[pos + 1]

\* The innermost compile_insns call.
CurrentBranch == branches[Len(branches)]

\* The test of the while loop of compile_insns. Every compile_insns call
\* starts with status->success TRUE and an iteration that clears it ends
\* with break, so the loop goes on exactly while the condition of line 779
\* holds and status->success is still TRUE.
compile_insns_loop_mut(br) ==
    /\ br.pos \in 0..(iseq_size - 1)
    /\ ~status.compiled_for_pos[br.pos]
    /\ ~br.finish_p

compile_insns_loop_recompiling(br) ==
    /\ br.pos \in 0..(iseq_size - 1)
    /\ ~br.finish_p
    /\ status.success

compile_insns_loop(br) ==
    /\ br.pos \in 0..(iseq_size - 1)
    /\ ~status.compiled_for_pos[br.pos]
    /\ ~br.finish_p
    /\ status.success

\* The last statement of compile_insn: goto label_<next_pos> when next_pos
\* is already compiled, or after a jump.
goto_next_pos(compiled, next_pos, insn) ==
    IF (next_pos \in 0..(iseq_size - 1) /\ compiled[next_pos]) \/ insn.op = "jump"
    THEN <<Item("goto", 0, next_pos, 0, "")>>
    ELSE <<>>

\* The check of compile_insns after compile_insn returned.
stack_exceeded_mut(stack_size) == FALSE

stack_exceeded(stack_size) == UnsignedGreater(stack_size, body.stack_max)

\* The prologue of the emitted function: the stack array when stack_max > 0
\* and, for a body with optional parameters, the switch over the opt table.
prologue(b) ==
    (IF b.stack_max > 0 THEN <<Item("decl", b.stack_max, 0, 0, "")>> ELSE <<>>)
    \o (IF b.opt_table # <<>>
        THEN <<Item("switch", 0, 0, 0, "")>>
             \o [i \in 1..Len(b.opt_table) |->
                    Item("case", b.opt_table[i], b.opt_table[i], 0, "")]
             \o <<Item("endswitch", 0, 0, 0, "")>>
        ELSE <<>>)

\* mjit_compile for the body b, up to its call
\* compile_insns(f, body, 0, 0, &status).
mjit_compile_start(b) ==
    /\ body' = b
    /\ status' = [success |-> TRUE,
                  compiled_for_pos |-> [p \in 0..(Len(b.insns) - 1) |-> FALSE]]
    /\ size_at' = [p \in 0..(Len(b.insns) - 1) |-> 0]
    /\ c_src' = prologue(b)
    /\ branches' = << [pos |-> 0, stack_size |-> 0, finish_p |-> FALSE,
                       in_branch |-> FALSE, target |-> 0] >>
    /\ tpc' = "loop"

mjit_compile ==
    /\ tpc = "idle"
    /\ \/ \E b \in PlainBodies : mjit_compile_start(b)
       \/ \E P \in BranchControls : \E b \in BranchBodies(P) : mjit_compile_start(b)
       \/ \E P \in LoopControls : \E b \in LoopBodies(P) : mjit_compile_start(b)
    /\ UNCHANGED <<jit, vm>>
    /\ UNCHANGED <<engine_vars, body_vars, worker_vars, mutator_vars, history_vars,
                   file_vars, proc, callers>>

\* One iteration of the loop of compile_insns for an instruction whose case
\* makes no recursive call: the label, compile_insn, the stack_max check.
compile_insns ==
    /\ tpc = "loop"
    /\ branches # <<>>
    /\ compile_insns_loop(CurrentBranch)
    /\ InsnAt(CurrentBranch.pos).op \notin recursive_branches
    /\ LET br == CurrentBranch
           insn == InsnAt(br.pos)
           r == compile_insn(insn, br.pos, br.stack_size)
           compiled == [status.compiled_for_pos EXCEPT ![br.pos] = TRUE]
       IN  /\ c_src' = c_src \o <<Item("label", br.pos, 0, 0, ""), Item("pc", br.pos, 0, 0, "")>>
                             \o r.items \o goto_next_pos(compiled, r.next_pos, insn)
           /\ status' = [success |-> ~r.failed /\ ~stack_exceeded(r.stack_size),
                         compiled_for_pos |-> compiled]
           /\ size_at' = [size_at EXCEPT ![br.pos] = br.stack_size]
           /\ branches' = [branches EXCEPT ![Len(branches)] =
                              [br EXCEPT !.pos = r.next_pos, !.stack_size = r.stack_size,
                                         !.finish_p = r.finish_p]]
    /\ UNCHANGED <<tpc, body, jit, vm>>
    /\ UNCHANGED <<engine_vars, body_vars, worker_vars, mutator_vars, history_vars,
                   file_vars, proc, callers>>

\* The same iteration for branchif, branchunless and branchnil, up to the
\* call compile_insns(f, body, b->stack_size, pos + insn_len(insn), status)
\* for the fall-through.
compile_branch ==
    /\ tpc = "loop"
    /\ branches # <<>>
    /\ compile_insns_loop(CurrentBranch)
    /\ InsnAt(CurrentBranch.pos).op \in recursive_branches
    /\ LET br == CurrentBranch
           insn == InsnAt(br.pos)
           target == br.pos + insn_len(insn) + insn.n
       IN  /\ c_src' = c_src \o <<Item("label", br.pos, 0, 0, ""), Item("pc", br.pos, 0, 0, ""),
                                  Item("if", br.stack_size - 1, target, 0, branch_test(insn.op))>>
           /\ status' = [status EXCEPT !.compiled_for_pos[br.pos] = TRUE]
           /\ size_at' = [size_at EXCEPT ![br.pos] = br.stack_size]
           /\ branches' = [branches EXCEPT ![Len(branches)] =
                              [br EXCEPT !.stack_size = br.stack_size - 1,
                                         !.in_branch = TRUE, !.target = target]]
                          \o << [pos |-> br.pos + insn_len(insn),
                                 stack_size |-> br.stack_size - 1, finish_p |-> FALSE,
                                 in_branch |-> FALSE, target |-> 0] >>
    /\ UNCHANGED <<tpc, body, jit, vm>>
    /\ UNCHANGED <<engine_vars, body_vars, worker_vars, mutator_vars, history_vars,
                   file_vars, proc, callers>>

\* The fall-through's compile_insns returns to the compile_insn of the
\* branch: next_pos becomes the target, the last statement of compile_insn,
\* then the stack_max check of the caller's loop.
compile_branch_return ==
    /\ tpc = "loop"
    /\ Len(branches) >= 2
    /\ ~compile_insns_loop(CurrentBranch)
    /\ LET caller == branches[Len(branches) - 1]
           insn == InsnAt(caller.pos)
       IN  /\ c_src' = c_src \o goto_next_pos(status.compiled_for_pos, caller.target, insn)
           /\ status' = [status EXCEPT
                           !.success = status.success /\ ~stack_exceeded(caller.stack_size)]
           /\ branches' = [SubSeq(branches, 1, Len(branches) - 1)
                              EXCEPT ![Len(branches) - 1] =
                                 [caller EXCEPT !.pos = caller.target, !.in_branch = FALSE]]
    /\ UNCHANGED <<tpc, body, size_at, jit, vm>>
    /\ UNCHANGED <<engine_vars, body_vars, worker_vars, mutator_vars, history_vars,
                   file_vars, proc, callers>>

\* The outermost compile_insns returns to mjit_compile, which prints the
\* cancel handler and returns status.success.
compile_cancel_handler ==
    /\ tpc = "loop"
    /\ Len(branches) = 1
    /\ ~compile_insns_loop(CurrentBranch)
    /\ c_src' = c_src \o <<Item("cancel", 0, 0, 0, "")>>
                      \o [i \in 1..body.stack_max |-> Item("writeback", i, i - 1, 0, "")]
                      \o <<Item("return_undef", 0, 0, 0, "")>>
    /\ branches' = <<>>
    /\ tpc' = "compiled"
    /\ UNCHANGED <<body, status, size_at, jit, vm>>
    /\ UNCHANGED <<engine_vars, body_vars, worker_vars, mutator_vars, history_vars,
                   file_vars, proc, callers>>

\* ------------------------------------------------- the generated function
\* The C compiler accepts the printed function only when every label a goto
\* names exists; otherwise no function is loaded for the body.
Linkable(code) ==
    \A i \in 1..Len(code) :
        code[i].k \in {"goto", "if", "case"}
        => \E j \in 1..Len(code) : code[j].k = "label" /\ code[j].a = code[i].b

\* The index in the source of label_<pos>.
LabelIndex(code, pos) ==
    CHOOSE j \in 1..Len(code) : code[j].k = "label" /\ code[j].a = pos

\* The index of the cancel label.
CancelIndex(code) == CHOOSE j \in 1..Len(code) : code[j].k = "cancel"

\* A slot of the automatic array stack[] that was never assigned.
Uninit == "uninit"

Defined(stack, i) == i \in DOMAIN stack /\ stack[i] # Uninit

\* The slots a statement reads as values.
Reads(item) ==
    CASE item.k = "copy" -> {item.b}
      [] item.k = "memcpy" -> item.b..(item.b + item.c - 1)
      [] item.k = "swap" -> {item.a, item.b}
      [] item.k = "reverse" -> item.a..(item.a + item.c - 1)
      [] item.k \in {"setlocal", "if", "return"} -> {item.a}
      [] item.k = "setconstant" -> {item.b}
      [] OTHER -> {}

\* Reading a slot that was never assigned, or one outside the array, yields
\* any value: w holds the value each such read of the statement produces.
Indeterminate(stack, item) == { i \in Reads(item) : ~Defined(stack, i) }

Load(stack, i, w) == IF Defined(stack, i) THEN stack[i] ELSE w[i]

\* Writing outside the array leaves the array as it is.
Store(stack, i, v) == IF i \in DOMAIN stack THEN [stack EXCEPT ![i] = v] ELSE stack

\* What a test of a conditional branch yields for a value.
Test(t, v) ==
    CASE t = "RTEST" -> RTEST(v)
      [] t = "!RTEST" -> ~RTEST(v)
      [] t = "NIL_P" -> NIL_P(v)
      [] OTHER -> TYPE(v) = t

\* The values of cfp->pc - iseq_encoded the function can be entered with.
EntryPcs(b) == IF b.opt_table = <<>> THEN {0} ELSE 0..(Len(b.insns) - 1)

\* The first statement the function runs: the switch of the prologue takes
\* the case of the entry pc if there is one, and falls out otherwise.
EntryIndex(code, entry) ==
    IF \E j \in 1..Len(code) : code[j].k = "case" /\ code[j].a = entry
    THEN LabelIndex(code, entry)
    ELSE Len(prologue(body)) + 1

\* The function is called for a frame with an empty operand stack.
jit_call ==
    /\ tpc = "compiled"
    /\ status.success
    /\ Linkable(c_src)
    /\ \E lv \in [Locals -> Values], entry \in EntryPcs(body) :
          jit' = [pc |-> EntryIndex(c_src, entry),
                  stack |-> [i \in 0..(body.stack_max - 1) |-> Uninit],
                  locals |-> lv, konst |-> Qnil, ret |-> "",
                  cfp_pc |-> entry, cfp_sp |-> 1,
                  frame |-> [i \in 1..body.stack_max |-> Uninit],
                  entry |-> entry, entry_locals |-> lv,
                  cur |-> 0 - 1, at_label |-> <<>>, cancelled |-> FALSE,
                  valid_class |-> TRUE, stale_call |-> FALSE, out_of_array |-> FALSE]
    /\ tpc' = "jit"
    /\ UNCHANGED <<body, status, branches, c_src, size_at, vm>>
    /\ UNCHANGED <<engine_vars, body_vars, worker_vars, mutator_vars, history_vars,
                   file_vars, proc, callers>>

\* The outcome of the cache test of a guard: whether the global method state
\* and the receiver's class serial still are the ones of the call cache.
\* mjit_check_invalid_cc compares both, the other guard only the first.
guard_invalid(item, method_state_same, class_serial_same) ==
    IF item.v = "method_state_and_class_serial"
    THEN ~method_state_same \/ ~class_serial_same
    ELSE ~method_state_same

\* The statements of cancel: written back are all the slots of stack[].
cancel_writeback(j, item) == [j.frame EXCEPT ![item.a] = j.stack[item.b]]

\* One statement of the function, for the values w of its indeterminate
\* reads, the value res a called function returns, and the state of the
\* method cache found by a guard.
Exec(j, item, w, res, method_state_same, class_serial_same) ==
    LET next == [j EXCEPT !.pc = j.pc + 1]
        st == j.stack
        wr(i, v) == [next EXCEPT !.stack = Store(st, i, v),
                                 !.out_of_array = j.out_of_array \/ i \notin DOMAIN st]
    IN  CASE item.k = "label" -> [next EXCEPT !.cur = item.a, !.at_label = st]
          [] item.k = "pc" -> [next EXCEPT !.cfp_pc = item.a]
          [] item.k \in {"decl", "hook", "cancel", "switch", "case", "endswitch"} -> next
          [] item.k = "const" -> wr(item.a, item.v)
          [] item.k = "copy" -> wr(item.a, Load(st, item.b, w))
          [] item.k = "memcpy" ->
                [next EXCEPT
                   !.stack = [i \in DOMAIN st |->
                                IF i \in item.a..(item.a + item.c - 1)
                                THEN Load(st, item.b + (i - item.a), w) ELSE st[i]],
                   !.out_of_array = j.out_of_array
                                    \/ ~(item.a..(item.a + item.c - 1) \subseteq DOMAIN st)]
          [] item.k = "swap" ->
                [next EXCEPT
                   !.stack = Store(Store(st, item.a, Load(st, item.b, w)),
                                   item.b, Load(st, item.a, w)),
                   !.out_of_array = j.out_of_array \/ ~({item.a, item.b} \subseteq DOMAIN st)]
          [] item.k = "reverse" ->
                [next EXCEPT
                   !.stack = [i \in DOMAIN st |->
                                IF i \in item.a..(item.a + item.c - 1)
                                THEN Load(st, item.a + (item.a + item.c - 1 - i), w)
                                ELSE st[i]],
                   !.out_of_array = j.out_of_array
                                    \/ ~(item.a..(item.a + item.c - 1) \subseteq DOMAIN st)]
          [] item.k = "getlocal" -> wr(item.a, j.locals[item.b])
          [] item.k = "setlocal" -> [next EXCEPT !.locals[item.b] = Load(st, item.a, w)]
          [] item.k = "getconstant" -> wr(item.a, j.konst)
          [] item.k = "setconstant" -> [next EXCEPT !.konst = Load(st, item.b, w)]
          [] item.k = "if" ->
                IF Test(item.v, Load(st, item.a, w))
                THEN [j EXCEPT !.pc = LabelIndex(c_src, item.b)]
                ELSE next
          [] item.k = "goto" -> [j EXCEPT !.pc = LabelIndex(c_src, item.b)]
          [] item.k = "return" -> [j EXCEPT !.ret = Load(st, item.a, w)]
          [] item.k = "guard" ->
                IF guard_invalid(item, method_state_same, class_serial_same)
                THEN [j EXCEPT !.cfp_sp = item.b, !.cancelled = TRUE,
                               !.pc = CancelIndex(c_src)]
                ELSE [next EXCEPT !.valid_class = class_serial_same]
          [] item.k = "call" ->
                [wr(item.a, res) EXCEPT !.stale_call = j.stale_call \/ ~j.valid_class]
          [] item.k = "opt" ->
                IF res = Qundef
                THEN [j EXCEPT !.cfp_sp = item.b, !.cancelled = TRUE,
                               !.pc = CancelIndex(c_src)]
                ELSE wr(item.a, res)
          [] item.k = "writeback" -> [next EXCEPT !.frame = cancel_writeback(j, item)]
          [] item.k = "return_undef" -> [j EXCEPT !.ret = Qundef]

\* What a called method or operator function can return.
Results(item) ==
    CASE item.k = "call" -> Values
      [] item.k = "opt" -> Values \cup {Qundef}
      [] OTHER -> {Qnil}

CacheStates(item) == IF item.k = "guard" THEN BOOLEAN ELSE {TRUE}

jit_step ==
    /\ tpc = "jit"
    /\ jit.ret = ""
    /\ LET item == c_src[jit.pc]
       IN  \E w \in [Indeterminate(jit.stack, item) -> Values], res \in Results(item),
              ms \in CacheStates(item), cs \in CacheStates(item) :
              jit' = Exec(jit, item, w, res, ms, cs)
    /\ UNCHANGED <<tpc, body, status, branches, c_src, size_at, vm>>
    /\ UNCHANGED <<engine_vars, body_vars, worker_vars, mutator_vars, history_vars,
                   file_vars, proc, callers>>

\* ----------------------------------------------------------- the interpreter
\* The instructions the interpreter of the model runs.
InterpretedInsns ==
    {"nop", "putnil", "putobject", "pop", "dup", "dupn", "swap", "reverse", "reput",
     "topn", "setn", "adjuststack", "getlocal", "setlocal", "jump", "branchif",
     "branchunless", "branchnil", "branchiftype", "leave"}

Interpretable(b) == \A i \in 1..Len(b.insns) : b.insns[i].op \in InterpretedInsns

\* The values an instruction takes from the operand stack and the values it
\* leaves there.
Pops(insn) ==
    CASE insn.op \in {"pop", "setlocal", "getconstant", "opt_not", "leave",
                      "branchif", "branchunless", "branchnil", "branchiftype"} -> 1
      [] insn.op \in {"setconstant", "opt_plus", "defineclass"} -> 2
      [] insn.op = "adjuststack" -> insn.n
      [] insn.op \in {"send", "opt_send_without_block"} -> insn.n + 1
      [] OTHER -> 0

Pushes(insn) ==
    CASE insn.op \in {"putnil", "putobject", "dup", "topn", "getlocal", "getconstant",
                      "opt_plus", "opt_not", "send", "opt_send_without_block",
                      "defineclass"} -> 1
      [] insn.op = "dupn" -> insn.n
      [] OTHER -> 0

\* The depth an instruction needs: what it pops or looks at.
Needs(insn) ==
    CASE insn.op \in {"dup", "reput"} -> 1
      [] insn.op = "swap" -> 2
      [] insn.op \in {"dupn", "reverse"} -> insn.n
      [] insn.op \in {"topn", "setn"} -> insn.n + 1
      [] OTHER -> Pops(insn)

\* TOPN(n) of a stack kept as a sequence whose last element is the top.
TOPN(stack, n) == stack[Len(stack) - n]

Top(stack, n) == SubSeq(stack, Len(stack) - n + 1, Len(stack))

Drop(stack, n) == SubSeq(stack, 1, Len(stack) - n)

Reverse(s) == [i \in 1..Len(s) |-> s[Len(s) + 1 - i]]

\* One instruction of the interpreter.
vm_exec_insn(v, insn) ==
    LET op == insn.op
        st == v.stack
        next == [v EXCEPT !.pc = v.pc + insn_len(insn)]
        target == v.pc + insn_len(insn) + insn.n
        branch(taken) == [v EXCEPT !.stack = Drop(st, 1),
                                   !.pc = IF taken THEN target ELSE v.pc + insn_len(insn)]
    IN  CASE op \in {"nop", "reput"} -> next
          [] op = "putnil" -> [next EXCEPT !.stack = Append(st, Qnil)]
          [] op = "putobject" -> [next EXCEPT !.stack = Append(st, insn.v)]
          [] op = "pop" -> [next EXCEPT !.stack = Drop(st, 1)]
          [] op = "dup" -> [next EXCEPT !.stack = Append(st, TOPN(st, 0))]
          [] op = "dupn" -> [next EXCEPT !.stack = st \o Top(st, insn.n)]
          [] op = "swap" -> [next EXCEPT !.stack = Drop(st, 2) \o <<TOPN(st, 0), TOPN(st, 1)>>]
          [] op = "reverse" ->
                [next EXCEPT !.stack = Drop(st, insn.n) \o Reverse(Top(st, insn.n))]
          [] op = "topn" -> [next EXCEPT !.stack = Append(st, TOPN(st, insn.n))]
          [] op = "setn" -> [next EXCEPT !.stack[Len(st) - insn.n] = TOPN(st, 0)]
          [] op = "adjuststack" -> [next EXCEPT !.stack = Drop(st, insn.n)]
          [] op = "getlocal" -> [next EXCEPT !.stack = Append(st, v.locals[insn.n])]
          [] op = "setlocal" -> [next EXCEPT !.stack = Drop(st, 1),
                                             !.locals[insn.n] = TOPN(st, 0)]
          [] op = "jump" -> [v EXCEPT !.pc = target]
          [] op = "branchif" -> branch(RTEST(TOPN(st, 0)))
          [] op = "branchunless" -> branch(~RTEST(TOPN(st, 0)))
          [] op = "branchnil" -> branch(NIL_P(TOPN(st, 0)))
          [] op = "branchiftype" -> branch(TYPE(TOPN(st, 0)) = insn.v)
          [] op = "leave" -> [v EXCEPT !.ret = TOPN(st, 0)]

\* The generated function has returned: the interpreter runs the same body
\* from the same entry pc and locals, when all its instructions are
\* interpreted ones.
vm_exec ==
    /\ tpc = "jit"
    /\ jit.ret # ""
    /\ IF Interpretable(body)
       THEN /\ vm' = [pc |-> jit.entry, stack |-> <<>>, locals |-> jit.entry_locals,
                      ret |-> "", undefined |-> FALSE]
            /\ tpc' = "vm"
       ELSE /\ vm' = vm
            /\ tpc' = "done"
    /\ UNCHANGED <<body, status, branches, c_src, size_at, jit>>
    /\ UNCHANGED <<engine_vars, body_vars, worker_vars, mutator_vars, history_vars,
                   file_vars, proc, callers>>

\* The behaviour of the interpreter is undefined when the pc leaves the body,
\* when the stack is too shallow for the instruction, and when the
\* instruction pushes beyond the stack_max slots the frame has.
vm_undefined(v) ==
    \/ v.pc \notin 0..(iseq_size - 1)
    \/ Len(v.stack) < Needs(InsnAt(v.pc))
    \/ Len(v.stack) - Pops(InsnAt(v.pc)) + Pushes(InsnAt(v.pc)) > body.stack_max

\* One step of the interpreter; it stops at leave.
vm_step ==
    /\ tpc = "vm"
    /\ IF vm_undefined(vm)
       THEN /\ vm' = [vm EXCEPT !.undefined = TRUE]
            /\ tpc' = "done"
       ELSE /\ vm' = vm_exec_insn(vm, InsnAt(vm.pc))
            /\ tpc' = IF InsnAt(vm.pc).op = "leave" THEN "done" ELSE "vm"
    /\ UNCHANGED <<body, status, branches, c_src, size_at, jit>>
    /\ UNCHANGED <<engine_vars, body_vars, worker_vars, mutator_vars, history_vars,
                   file_vars, proc, callers>>

\* ------------------------------------------------------- specifications
MutatorStep ==
    \/ mjit_init
    \/ mjit_add_iseq_to_process
    \/ add_enqueue
    \/ mjit_gc_start_hook
    \/ gc_start_wait
    \/ mjit_gc_finish_hook
    \/ gc_finish_cs
    \/ mjit_free_iseq
    \/ free_cs
    \/ mjit_finish
    \/ finish_wait_pch
    \/ finish_stop
    \/ finish_poll
    \/ finish_broadcast
    \/ finish_destroy
    \/ finish_cleanup

WorkerStep ==
    \/ make_pch
    \/ pch_args_failed
    \/ pch_exec
    \/ pch_done
    \/ pch_check
    \/ fail_lock
    \/ fail_unlock
    \/ w_loop
    \/ w_dequeue
    \/ w_gc_wait
    \/ w_compile
    \/ w_after_compile
    \/ w_cc
    \/ w_load
    \/ w_publish
    \/ end_lock
    \/ end_unlock

Next == MutatorStep \/ WorkerStep \/ spurious_wakeup

Spec == Init /\ [][Next]_vars

\* The process and, from a fork on, its child.
ForkNext == Next \/ fork_child

ForkSpec == Init /\ [][ForkNext]_vars

CompileNext ==
    \/ mjit_compile
    \/ compile_insns
    \/ compile_branch
    \/ compile_branch_return
    \/ compile_cancel_handler
    \/ jit_call
    \/ jit_step
    \/ vm_exec
    \/ vm_step

CompileSpec == Init /\ [][CompileNext]_vars

\* ------------------------------------------------------------- properties
\* C1: in_jit and in_gc are never both TRUE, in any interleaving of the worker
\* with mjit_gc_start_hook and mjit_gc_finish_hook.
C1_GcMutualExclusion == ~(in_jit /\ in_gc)

\* The worker has dequeued a unit and sleeps on mjit_gc_wakeup because a
\* collection is in progress.
C1_Witness == wpc = "w_gc_wait" /\ w_asleep /\ in_gc /\ gc_running

\* C2: the worker never reads through unit->iseq while it is NULL, neither for
\* the message "start compile" and mjit_compile nor for the message "JIT
\* success".
C2_NoNullIseqDeref ==
    [][/\ (wpc = "w_compile" /\ wpc' = "w_after_compile")
            => units[w_unit].iseq # NULL
       /\ (wpc = "w_load" /\ wpc' = "w_publish" /\ w_func' > LAST_JIT_ISEQ_FUNC)
            => units[w_unit].iseq # NULL]_vars

\* C3: the worker stores into a body's jit_func at most once (the slot holds
\* no terminal value before the store), the value stored is terminal, and no
\* slot goes back to NOT_ADDED_JIT_ISEQ_FUNC.
C3_PublishOnceTerminal ==
    [][/\ (wpc = "w_publish" /\ wpc' = "w_loop" /\ units[w_unit].iseq # NULL)
            => /\ jit_func[units[w_unit].iseq] < NOT_COMPILABLE_JIT_ISEQ_FUNC
               /\ jit_func'[units[w_unit].iseq] >= NOT_COMPILABLE_JIT_ISEQ_FUNC
       /\ \A b \in Bodies :
            jit_func[b] # NOT_ADDED_JIT_ISEQ_FUNC => jit_func'[b] # NOT_ADDED_JIT_ISEQ_FUNC]_vars

\* C4: after dlopen failed in load_func_from_so, the value the worker stores
\* into the body's jit_func is NOT_COMPILABLE_JIT_ISEQ_FUNC.
C4_LoadFailurePublishesNotCompilable ==
    [][(wpc = "w_publish" /\ wpc' = "w_loop" /\ w_stage = "load_failed"
          /\ units[w_unit].iseq # NULL)
        => jit_func'[units[w_unit].iseq] = NOT_COMPILABLE_JIT_ISEQ_FUNC]_vars

C6_DestroyAfterWorkerExit ==
    [][(mpc = "finish_destroy" /\ mpc' = "finish_cleanup")
        => (wpc = "w_done" /\ mutex = "free" /\ unit_queue = NULL)]_vars

\* C7: the worker makes no call of get_from_unit_queue once finish_worker_p is
\* set.
C7_NoGetAfterFinish == gets_after_finish = 0

\* C7, amended: the worker makes at most one call of get_from_unit_queue once
\* finish_worker_p is set.
C7_AtMostOneGetAfterFinish == gets_after_finish <= 1

\* The worker has made that one call.
C7_Witness == gets_after_finish = 1 /\ finish_worker_p

\* C8: a call of mjit_finish on an initialized engine returns: it never
\* reaches a state in which the process runs on and neither thread can take
\* a step again unless pthread_cond_wait returns spuriously.
C8_FinishReturns ==
    ~(/\ mpc \in {"finish_wait_pch", "finish_stop", "finish_poll", "finish_broadcast",
                  "finish_destroy", "finish_cleanup"}
      /\ ~crashed
      /\ ~ENABLED (MutatorStep \/ WorkerStep))

\* C9: whenever pch_status becomes PCH_FAILED while mjit_finish is blocked on
\* mjit_pch_wakeup, that step wakes mjit_finish up.
C9_PchFailureWakesFinish ==
    [][(pch_status = PCH_NOT_READY /\ pch_status' = PCH_FAILED
          /\ mpc = "finish_wait_pch" /\ m_asleep)
        => ~m_asleep']_vars

C11_DequeueBest ==
    \A calls \in ObservedCalls :
        WellFormed(units, unit_queue) =>
            LET q == QueueSeq(units, unit_queue, MaxUnits)
                r == get_from_unit_queue(units, unit_queue, calls)
                cands == {i \in 1..Len(q) : units[q[i]].iseq # NULL}
                best == {i \in cands :
                            \A j \in cands :
                                /\ calls[units[q[j]].iseq] <= calls[units[q[i]].iseq]
                                /\ (calls[units[q[j]].iseq] = calls[units[q[i]].iseq] => i <= j)}
            IN  /\ ~r.hang
                /\ (r.unit = NULL) <=> (cands = {})
                /\ cands = {} => (r.units = units /\ r.queue = unit_queue)
                /\ cands # {} =>
                     /\ \E i \in best : r.unit = q[i]
                     /\ QueueSeq(r.units, r.queue, MaxUnits)
                          = SelectSeq(q, LAMBDA u : u # r.unit)

\* The worker has taken the second unit of a list of two units with an iseq,
\* ahead of the first one, which stays queued.
C11_Witness ==
    /\ wpc = "w_gc_wait"
    /\ w_unit = 2
    /\ unit_queue = 1
    /\ units[1].iseq # NULL
    /\ units[2].iseq # NULL
    /\ units[1].iseq # units[2].iseq
    /\ units[1].next = NULL

\* C12: with a successful PCH build and no finish request, a unit of a live
\* body that the worker has dequeued and is done with has given the body's
\* jit_func a value, a loaded function pointer or the not-compilable one:
\* no state is reached in which the worker has finished the unit, the unit
\* is queued no more and jit_func still holds NOT_ADDED_JIT_ISEQ_FUNC.
C12_ProcessedUnitHasValue ==
    \A b \in Bodies, u \in UnitAddrs :
        (/\ pch_status = PCH_SUCCESS
         /\ ~finish_worker_p
         /\ ~crashed
         /\ alive[b]
         /\ units[u].iseq = b
         /\ jit_unit[b] = u
         /\ mpc = "ready"
         /\ wpc = "w_dequeue"
         /\ w_unit # u
         /\ \A i \in 1..Len(QueueSeq(units, unit_queue, MaxUnits)) :
                QueueSeq(units, unit_queue, MaxUnits)[i] # u)
        => jit_func[b] # NOT_ADDED_JIT_ISEQ_FUNC

\* C13: after a failed mjit_init, mjit_init_p is FALSE and no worker runs, and
\* every later call of an entry point returns without blocking and leaves
\* the queue, the units, the flags, pch_status, the mutex and the bodies'
\* jit_func and jit_unit as they were.
C13_InitFailureDisables ==
    [][(wpc' = "no_thread" /\ mpc' # "boot")
        => /\ ~mjit_init_p'
           /\ ~m_asleep'
           /\ mpc' \in {"ready", "finished"}
           /\ mpc # "boot"
                => /\ UNCHANGED <<unit_queue, units, current_unit_num, in_gc, in_jit>>
                   /\ UNCHANGED <<finish_worker_p, worker_finished, pch_status, mutex>>
                   /\ UNCHANGED <<jit_func, jit_unit, destroyed>>]_vars

\* mjit_init has failed, a collection has run and freed a body, and
\* mjit_finish has returned.
C13_Witness ==
    /\ wpc = "no_thread"
    /\ mpc = "finished"
    /\ ~mjit_init_p
    /\ \E b \in Bodies : ~alive[b]

\* C14: in a forked child mjit_init_p is FALSE whatever the state of the
\* worker and the mutex was at the fork, and every engine operation called
\* in the child returns at once: the host thread never enters a critical
\* section or a wait, and the engine's state and the bodies' jit_func and
\* jit_unit stay as they were.
C14_ForkedChildDisabled ==
    [][(wpc' = "child")
        => /\ ~mjit_init_p'
           /\ ~m_asleep'
           /\ mpc' \in {"ready", "finished"}
           /\ UNCHANGED <<unit_queue, units, current_unit_num, in_gc, in_jit>>
           /\ UNCHANGED <<finish_worker_p, worker_finished, pch_status, mutex>>
           /\ UNCHANGED <<jit_func, jit_unit, destroyed>>]_vars

\* The fork happened while the worker was translating a unit (in_jit set)
\* with a unit queued; in the child a collection has run and freed a body
\* and mjit_finish has returned.
C14_Witness ==
    /\ wpc = "child"
    /\ mpc = "finished"
    /\ in_jit
    /\ unit_queue # NULL
    /\ \E b \in Bodies : ~alive[b]

\* C15: once the worker has recorded PCH_FAILED and cleared mjit_init_p, a
\* call of mjit_add_iseq_to_process returns at its first test: no step from
\* there changes unit_queue, the units, current_unit_num or a body's jit_unit
\* or jit_func, and the host thread does not enter the critical section of
\* mjit_add_iseq_to_process.
C15_AddIsNoOpAfterPchFailure ==
    [][(pch_status = PCH_FAILED /\ ~mjit_init_p /\ mpc = "ready")
        => /\ UNCHANGED <<unit_queue, units, current_unit_num, jit_unit, jit_func>>
           /\ mpc' # "add_enqueue"]_vars

\* The PCH build has failed with a unit queued, the worker has returned, and
\* the host thread is where it calls mjit_add_iseq_to_process.
C15_Witness ==
    /\ pch_status = PCH_FAILED
    /\ ~mjit_init_p
    /\ wpc = "w_done"
    /\ mpc = "ready"
    /\ ~gc_running
    /\ unit_queue # NULL
    /\ current_unit_num < MaxUnits

\* C16: while the worker is in exec_process, for the PCH or for a unit, it
\* does not hold the mutex and in_jit is FALSE, and a host thread inside
\* mjit_add_iseq_to_process, mjit_free_iseq or a GC hook is not asleep and
\* can take its step before the compiler ends.
C16_CompilerRunsUnlocked ==
    wpc \in {"pch_exec", "w_cc"} =>
        /\ mutex # "worker"
        /\ ~in_jit
        /\ mpc \in {"add_enqueue", "gc_start_wait", "gc_finish_cs", "free_cs"}
             => /\ ~m_asleep
                /\ ENABLED (add_enqueue \/ gc_start_wait \/ gc_finish_cs \/ free_cs)

\* During the compiler run of a unit a collection has started and a body has
\* been freed: both hooks have returned.
C16_Witness ==
    /\ wpc = "w_cc"
    /\ in_gc
    /\ mpc = "ready"
    /\ \E b \in Bodies : ~alive[b]

\* C17: with save_temps off, when convert_unit_to_func has returned, on
\* whichever path, neither the .c file nor the .so file of the unit exists.
C17_UnitFilesRemoved ==
    (wpc = "w_publish" /\ ~save_temps) => (~c_file /\ ~so_file)

\* C18: with save_temps off, once mjit_finish has returned in a process
\* whose worker was started, the PCH file does not exist, whether the PCH
\* build succeeded or failed.
C18_PchFileRemoved ==
    (mpc = "finished" /\ wpc # "no_thread" /\ ~save_temps) => ~pch_file

\* C19: every write to a body's jit_unit is made inside a critical section,
\* by a thread that holds mjit_engine_mutex.
C19_JitUnitWrittenUnderMutex ==
    [][jit_unit' # jit_unit => mpc \in MutatorCriticalSections]_vars

\* The positions of the worker at which make_pch has not yet stored its
\* result ("child" is the forked process, which has no worker).
PchPending ==
    {"no_thread", "pch_start", "pch_args_failed", "pch_exec", "pch_done", "child"}

\* C20: pch_status changes only from PCH_NOT_READY, only to PCH_FAILED or
\* PCH_SUCCESS, and it has changed (once) as soon as make_pch has returned;
\* no later step changes it again.
C20_PchStatusOnce ==
    /\ [][pch_status' # pch_status =>
            /\ pch_status = PCH_NOT_READY
            /\ pch_status' \in {PCH_FAILED, PCH_SUCCESS}]_vars
    /\ [](wpc \notin PchPending => pch_status # PCH_NOT_READY)

\* C20 witness: the PCH was built and the worker has gone through its loop
\* and the shutdown with the status still PCH_SUCCESS.
C20_Witness ==
    /\ pch_status = PCH_SUCCESS
    /\ wpc = "w_done"
    /\ mpc = "finished"

\* ------------------------------------------------- properties of the translator
\* The translator has returned from mjit_compile.
Compiled == tpc \notin {"idle", "loop"}

\* The stack_size the translator held after the instruction at a compiled
\* position, from the one it held before it.
AfterSize(pos) ==
    IF InsnAt(pos).op \in recursive_branches
    THEN size_at[pos] - 1
    ELSE compile_insn(InsnAt(pos), pos, size_at[pos]).stack_size

\* C26: mjit_compile returns failure whenever the simulated stack_size exceeds
\* body->stack_max after some instruction it compiled, on any branch; for a
\* body with stack_max 0 no stack array is declared and an instruction that
\* pushes a value fails the compilation.
C26_StackMaxExceededFails ==
    Compiled =>
       /\ (\E pos \in 0..(iseq_size - 1) :
              /\ status.compiled_for_pos[pos]
              /\ UnsignedGreater(AfterSize(pos), body.stack_max))
          => ~status.success
       /\ body.stack_max = 0 =>
             /\ \A i \in 1..Len(c_src) : c_src[i].k # "decl"
             /\ (\E pos \in 0..(iseq_size - 1) :
                    /\ status.compiled_for_pos[pos]
                    /\ AfterSize(pos) > size_at[pos])
                => ~status.success

\* A body with stack_max 0 whose first instruction pushes was refused, and
\* nothing after that instruction was compiled.
C26_Witness ==
    /\ tpc = "compiled"
    /\ ~status.success
    /\ body.stack_max = 0
    /\ iseq_size > 1
    /\ status.compiled_for_pos[0]
    /\ InsnAt(0).op = "putnil"
    /\ ~status.compiled_for_pos[1]

\* C27: mjit_compile returns failure for any body in which a position the
\* translator reaches holds getblockparamproxy, defineclass,
\* opt_call_c_function or another instruction without a case in compile_insn,
\* and once it has failed no further position of the body is compiled, in the
\* current branch or in an enclosing one.
C27_UnsupportedFails ==
    /\ [](\A pos \in 0..(iseq_size - 1) :
             status.compiled_for_pos[pos] /\ InsnAt(pos).op \in unsupported_insns
             => ~status.success)
    /\ [][~status.success => /\ ~status'.success
                             /\ status'.compiled_for_pos = status.compiled_for_pos
                             /\ \A i \in 1..Len(c_src') :
                                   c_src'[i].k = "label" => i <= Len(c_src)]_vars

\* The fall-through of a conditional branch met defineclass: the compilation
\* failed, and neither the rest of the fall-through nor the target of the
\* branch, left to the enclosing compile_insns, was compiled.
C27_Witness ==
    /\ tpc = "compiled"
    /\ ~status.success
    /\ \E pos \in 0..(iseq_size - 4) :
          /\ status.compiled_for_pos[pos]
          /\ InsnAt(pos).op \in recursive_branches
          /\ InsnAt(pos).n = 2
          /\ status.compiled_for_pos[pos + 1]
          /\ InsnAt(pos + 1).op = "defineclass"
          /\ ~status.compiled_for_pos[pos + 2]
          /\ ~status.compiled_for_pos[pos + 3]

\* The positions the walk of the translator goes to after a compiled
\* position: the next position, the target of a jump, and both for a
\* conditional branch whose case compiles its fall-through and its target.
WalkSuccessors(pos) ==
    LET insn == InsnAt(pos)
        next == pos + insn_len(insn)
    IN  (CASE insn.op = "leave" -> {}
           [] insn.op = "jump" -> {next + insn.n}
           [] insn.op \in recursive_branches -> {next, next + insn.n}
           [] OTHER -> {next})
        \cap (0..(iseq_size - 1))

\* C25: mjit_compile returns failure for every body in which the walk reaches
\* a leave, on any branch, with a simulated stack_size other than 1: the
\* size it compiles the leave with, and the size every other branch arrives
\* with at the leave already compiled.
C25_LeaveReachedWithSizeOne ==
    Compiled /\ status.success =>
       \A pos \in 0..(iseq_size - 1) :
          status.compiled_for_pos[pos] /\ InsnAt(pos).op = "leave" =>
             /\ size_at[pos] = 1
             /\ \A q \in 0..(iseq_size - 1) :
                   status.compiled_for_pos[q] /\ pos \in WalkSuccessors(q)
                   => AfterSize(q) = 1

\* The statement at index i of the source transfers control to position pos:
\* it is the label of pos, or a goto to it.
LeadsTo(i, pos) ==
    /\ i \in 1..Len(c_src)
    /\ \/ c_src[i].k = "label" /\ c_src[i].a = pos
       \/ c_src[i].k = "goto" /\ c_src[i].b = pos

\* The index of the last statement printed for the instruction whose
\* cfp->pc assignment is at index i, before control leaves it sequentially.
LastItem(i) ==
    LET pos == c_src[i].a
    IN  IF InsnAt(pos).op \in recursive_branches
        THEN i + 1
        ELSE i + Len(compile_insn(InsnAt(pos), pos, size_at[pos]).items)

\* C28: in one mjit_compile call every position has its label and code
\* emitted at most once, and where control flow goes from a compiled
\* instruction on to the next position, the code of that position follows or,
\* when it was compiled already, goto label_<pos> does.
C28_EmittedOnceThenGoto ==
    Compiled /\ status.success =>
       /\ \A i, j \in 1..Len(c_src) :
             c_src[i].k = "label" /\ c_src[j].k = "label" /\ c_src[i].a = c_src[j].a
             => i = j
       /\ \A i \in 1..Len(c_src) :
             (/\ c_src[i].k = "pc"
              /\ InsnAt(c_src[i].a).op \notin {"leave", "jump"}
              /\ c_src[i].a + 1 < iseq_size)
             => LeadsTo(LastItem(i) + 1, c_src[i].a + 1)

\* The four conditional branches, and the two successors of one at pos.
conditional_branches == recursive_branches \cup {"branchiftype"}

BranchSuccessors(pos) ==
    {pos + insn_len(InsnAt(pos)), pos + insn_len(InsnAt(pos)) + InsnAt(pos).n}
    \cap (0..(iseq_size - 1))

\* Position s was compiled after position q.
CompiledAfter(s, q) ==
    /\ status.compiled_for_pos[s]
    /\ status.compiled_for_pos[q]
    /\ LabelIndex(c_src, s) > LabelIndex(c_src, q)

\* C29: for every conditional branch (branchif, branchunless, branchnil,
\* branchiftype) the fall-through and the target are both compiled, each from
\* the stack_size that holds after the branch popped its condition when the
\* walk came to it from this branch only, and the fall-through first.
C29_BothSuccessorsCompiled ==
    Compiled /\ status.success =>
       \A q \in 0..(iseq_size - 1) :
          status.compiled_for_pos[q] /\ InsnAt(q).op \in conditional_branches =>
             /\ \A s \in BranchSuccessors(q) :
                   /\ status.compiled_for_pos[s]
                   /\ (/\ CompiledAfter(s, q)
                       /\ \A p \in 0..(iseq_size - 1) :
                             status.compiled_for_pos[p] /\ s \in WalkSuccessors(p) => p = q)
                      => size_at[s] = size_at[q] - 1
             /\ \A s, t \in BranchSuccessors(q) :
                   (/\ s = q + insn_len(InsnAt(q))
                    /\ t # s
                    /\ CompiledAfter(s, q)
                    /\ CompiledAfter(t, q))
                   => LabelIndex(c_src, s) < LabelIndex(c_src, t)

\* C30: for a body with optional parameters the prologue holds, for every
\* entry pc_offset of the opt table, a case pc_offset that jumps to
\* label_<pc_offset>; that label is emitted in the function; and the code of
\* position 0 follows the switch, so that any other pc starts there.
C30_OptTablePrologue ==
    Compiled /\ status.success /\ body.opt_table # <<>> =>
       /\ \A i \in 1..Len(body.opt_table) :
             /\ \E j \in 1..Len(prologue(body)) :
                   /\ c_src[j].k = "case"
                   /\ c_src[j].a = body.opt_table[i]
                   /\ c_src[j].b = body.opt_table[i]
             /\ \E j \in 1..Len(c_src) :
                   c_src[j].k = "label" /\ c_src[j].a = body.opt_table[i]
       /\ LeadsTo(Len(prologue(body)) + 1, 0)

\* C24: the code emitted for a send or opt_send_without_block tests the global
\* method state and the class serial of the receiver against the call cache
\* before it invokes anything and cancels when either differs, so that no
\* method is invoked for a receiver whose class is not the one the cache
\* entry was resolved for.
C24_CallOnlyForCachedClass ==
    /\ \A i \in 1..Len(c_src) :
          c_src[i].k = "guard" => c_src[i].v = "method_state_and_class_serial"
    /\ tpc \in {"jit", "vm", "done"} => ~jit.stale_call

\* C23: when the generated function returns Qundef through cancel (a send
\* guard that failed, an optimized operator that returned Qundef), cfp->pc
\* is at the instruction that cancelled, cfp->sp is bp + 1 + the stack_size
\* the translator held before that instruction, and the frame slots
\* bp+1 .. sp-1 hold the values stack[] held when the instruction began, its
\* operands included.
C23_FrameRestoredOnCancel ==
    (tpc \in {"jit", "vm", "done"} /\ jit.cancelled /\ jit.ret = Qundef) =>
       /\ jit.cfp_pc = jit.cur
       /\ jit.cfp_sp = 1 + size_at[jit.cur]
       /\ \A i \in 1..(jit.cfp_sp - 1) : jit.frame[i] = jit.at_label[i - 1]

\* An opt_plus with nil and true on the stack returned Qundef: the run was
\* cancelled with both operands written back to the frame.
C23_Witness ==
    /\ tpc = "done"
    /\ jit.cancelled
    /\ jit.ret = Qundef
    /\ InsnAt(jit.cur).op = "opt_plus"
    /\ jit.cfp_sp = 3
    /\ jit.frame[1] = Qnil
    /\ jit.frame[2] = Qtrue

\* C21: for a body of supported instructions (literal pushes, stack
\* primitives, local get and set, conditional branches, jump, leave), the
\* function generated by mjit_compile, run from an empty operand stack,
\* returns Qundef or returns the value and leaves the locals that the
\* interpreter does for the same body, entry pc and locals.
C21_JitAgreesWithInterpreter ==
    (tpc = "done" /\ Interpretable(body) /\ ~vm.undefined) =>
       \/ jit.ret = Qundef
       \/ jit.ret = vm.ret /\ jit.locals = vm.locals

\* The instructions of the model that the test suite lists as compilable.
compilable_insns ==
    {"nop", "getlocal", "setlocal", "getconstant", "setconstant", "putnil", "putobject",
     "pop", "dup", "dupn", "swap", "reverse", "reput", "topn", "setn", "adjuststack",
     "trace", "trace2", "send", "opt_send_without_block", "leave", "jump", "branchif",
     "branchunless", "branchnil", "branchiftype", "opt_plus", "opt_not"}

\* The positions the interpreter can go to after the instruction at pos.
Successors(b, pos) ==
    LET insn == b.insns[pos + 1]
        next == pos + insn_len(insn)
    IN  CASE insn.op = "leave" -> {}
          [] insn.op = "jump" -> {next + insn.n}
          [] insn.op \in {"branchif", "branchunless", "branchnil", "branchiftype"} ->
                {next, next + insn.n}
          [] OTHER -> {next}

\* The instruction at pos of b can run at the given depth of the operand
\* stack: it finds its operands, stays within stack_max, and a leave finds
\* exactly one value.
DepthOk(b, pos, depth) ==
    LET insn == b.insns[pos + 1]
    IN  /\ depth >= Needs(insn)
        /\ depth - Pops(insn) + Pushes(insn) <= b.stack_max
        /\ insn.op = "leave" => depth = 1

\* The pairs <<position, depth>> the interpreter can be in, from position 0
\* with an empty stack; a pair that is not DepthOk, or outside the body, has
\* no successors.
RECURSIVE Depths(_, _)
Depths(b, seen) ==
    LET new == UNION { { <<q, pd[2] - Pops(b.insns[pd[1] + 1]) + Pushes(b.insns[pd[1] + 1])>> :
                           q \in Successors(b, pd[1]) } :
                       pd \in { x \in seen : /\ x[1] \in 0..(Len(b.insns) - 1)
                                             /\ DepthOk(b, x[1], x[2]) } }
    IN  IF new \subseteq seen THEN seen ELSE Depths(b, seen \cup new)

StackConsistent(b) ==
    \A pd \in Depths(b, {<<0, 0>>}) :
       /\ pd[1] \in 0..(Len(b.insns) - 1)
       /\ DepthOk(b, pd[1], pd[2])
       /\ \A x \in Depths(b, {<<0, 0>>}) : x[1] = pd[1] => x[2] = pd[2]

\* C22: a body made only of instructions the test suite lists as compilable
\* that is stack-consistent under the interpreter's stack effects (depth
\* never above stack_max, depth 1 at each leave) is accepted: mjit_compile
\* returns success for it.
C22_ListedBodiesAccepted ==
    (/\ Compiled
     /\ \A i \in 1..Len(body.insns) : body.insns[i].op \in compilable_insns
     /\ StackConsistent(body))
    => status.success

\* C39: when mjit_compile returns success, every goto label_<p> of the
\* emitted function (after a jump or a conditional branch, branchiftype
\* included, and in the opt-table prologue) names a position whose label was
\* emitted in the same function.
C39_GotoTargetsEmitted ==
    Compiled /\ status.success => Linkable(c_src)

\* The stack primitives, and the simulated stack of a run: the first n slots
\* of stack[], bottom first.
stack_primitives == {"pop", "dup", "dupn", "swap", "reverse", "topn", "setn", "adjuststack"}

SimulatedStack(j, n) == [i \in 1..n |-> j.stack[i - 1]]

\* C31: for each stack primitive (pop, dup, dupn n, swap, reverse n, topn n,
\* setn n, adjuststack n) the statements printed for it and the change of
\* stack_size take the simulated stack to the operand stack the interpreter's
\* instruction produces from the same values.
C31_PrimitivesMatchInterpreter ==
    [][(/\ tpc = "jit"
        /\ jit.ret = ""
        /\ jit.cur \in 0..(iseq_size - 1)
        /\ InsnAt(jit.cur).op \in stack_primitives
        /\ jit.pc = LastItem(LabelIndex(c_src, jit.cur) + 1)
        /\ size_at[jit.cur] >= Needs(InsnAt(jit.cur))
        /\ \A i \in 0..(size_at[jit.cur] - 1) : Defined(jit.stack, i))
       => SimulatedStack(jit', AfterSize(jit.cur))
          = vm_exec_insn([pc |-> jit.cur,
                          stack |-> SimulatedStack(jit, size_at[jit.cur]),
                          locals |-> jit.locals, ret |-> ""],
                         InsnAt(jit.cur)).stack]_vars

\* The steps of mjit_compile up to its return.
TranslateNext ==
    \/ compile_insns
    \/ compile_branch
    \/ compile_branch_return
    \/ compile_cancel_handler

\* The positions compile_insns has marked.
CompiledPositions == { p \in 0..(iseq_size - 1) : status.compiled_for_pos[p] }

\* What is left of a translation: two for each position not yet marked, one
\* for each compile_insns call that has not returned.
Remaining == 2 * (iseq_size - Cardinality(CompiledPositions)) + Len(branches)

\* C40: mjit_compile terminates for every body, bodies with backward jumps
\* and loops included: every iteration of the loop of compile_insns marks a
\* position that was not compiled before, the nesting of compile_insns calls
\* for branch fall-throughs never exceeds the number of marked positions, a
\* translation that has not returned always has a next step, and each of its
\* steps decreases what is left of it, which is never negative.
C40_CompileTerminates ==
    /\ [][(compile_insns \/ compile_branch)
          => /\ ~status.compiled_for_pos[CurrentBranch.pos]
             /\ status'.compiled_for_pos[CurrentBranch.pos]
             /\ Cardinality(CompiledPositions') = Cardinality(CompiledPositions) + 1]_vars
    /\ [](tpc = "loop" => Len(branches) - 1 <= Cardinality(CompiledPositions))
    /\ [](tpc = "loop" => Remaining >= 0 /\ ENABLED TranslateNext)
    /\ [][tpc = "loop" /\ tpc' = "loop" => Remaining' < Remaining]_vars

\* A body with a backward jump and a branch with a fall-through, both
\* compiled, whose translation has returned.
C40_Witness ==
    /\ tpc = "compiled"
    /\ \E p \in CompiledPositions : InsnAt(p).op = "jump" /\ InsnAt(p).n < 0
    /\ \E p \in CompiledPositions : InsnAt(p).op \in recursive_branches

\* C32: the GC/JIT handshake never blocks for ever, in its finite-run form.
\* While mjit_gc_start_hook sleeps on mjit_client_wakeup, in_jit is TRUE and
\* the worker is inside the translation with a step to take; the step that
\* clears in_jit wakes the hook, and the woken hook that finds in_jit FALSE
\* sets in_gc and returns. While the worker sleeps on mjit_gc_wakeup, in_gc
\* is TRUE and the collecting mutator has a step to take towards
\* mjit_gc_finish_hook, which does not return early; the step that clears
\* in_gc wakes the worker, and the woken worker that finds in_gc FALSE sets
\* in_jit and proceeds to the translation.
C32_HandshakeNeverBlocks ==
    /\ []((~crashed /\ mpc = "gc_start_wait" /\ m_asleep)
            => /\ in_jit
               /\ wpc \in {"w_compile", "w_after_compile"}
               /\ ENABLED (w_compile \/ w_after_compile))
    /\ [][(mpc = "gc_start_wait" /\ in_jit /\ ~in_jit') => ~m_asleep']_vars
    /\ []((~crashed /\ mpc = "gc_start_wait" /\ ~m_asleep /\ mutex = "free")
            => ENABLED gc_start_wait)
    /\ [][(gc_start_wait /\ ~in_jit) => (mpc' = "ready" /\ in_gc')]_vars
    /\ []((~crashed /\ wpc = "w_gc_wait" /\ w_asleep)
            => /\ in_gc
               /\ gc_running
               /\ mjit_init_p
               /\ mpc \in {"ready", "free_cs", "gc_finish_cs"}
               /\ ENABLED (mjit_free_iseq \/ free_cs \/ mjit_gc_finish_hook \/ gc_finish_cs))
    /\ [][(wpc = "w_gc_wait" /\ in_gc /\ ~in_gc') => ~w_asleep']_vars
    /\ []((~crashed /\ wpc = "w_gc_wait" /\ ~w_asleep /\ mutex = "free")
            => ENABLED w_gc_wait)
    /\ [][(w_gc_wait /\ ~in_gc) => (wpc' = "w_compile" /\ in_jit')]_vars

\* mjit_gc_start_hook sleeps on mjit_client_wakeup while the worker, which
\* has finished mjit_compile, is about to clear in_jit and signal.
C32_Witness ==
    /\ mpc = "gc_start_wait"
    /\ m_asleep
    /\ in_jit
    /\ wpc = "w_after_compile"
    /\ ~crashed

\* No queued unit has a live body: the queue is empty or every unit on it has
\* a NULL iseq.
NoLiveQueuedUnit ==
    LET l == QueueSeq(units, unit_queue, MaxUnits)
    IN  \A i \in 1..Len(l) : units[l[i]].iseq = NULL

\* C33: a worker that enters the critical section "in worker dequeue" when
\* finish has not been requested and no queued unit has a live body goes to
\* sleep on mjit_worker_wakeup there; it does not leave the section to lock
\* the mutex and scan the queue again.
C33_WorkerWaitsWithoutLiveUnit ==
    [][(w_dequeue /\ ~finish_worker_p /\ NoLiveQueuedUnit)
         => (w_asleep' /\ wpc' = "w_dequeue")]_vars

\* The places of the worker in its drain loop, from the test of the loop to
\* the store of the function, and how far the worker has got with the PCH.
DrainLoop ==
    {"w_loop", "w_dequeue", "w_gc_wait", "w_compile", "w_after_compile", "w_cc",
     "w_load", "w_publish"}

PchProgress ==
    CASE wpc \in {"no_thread", "pch_start"} -> 0
      [] wpc \in {"pch_args_failed", "pch_exec"} -> 1
      [] wpc = "pch_done" -> 2
      [] wpc = "pch_check" -> 3
      [] OTHER -> 4

\* C34: while pch_status is not PCH_SUCCESS the worker is not in its drain
\* loop, so it dequeues no unit and runs neither mjit_compile nor the
\* compiler of a unit; the PCH build is attempted once, before the drain
\* loop: the worker never goes back in make_pch, and the compiler run of the
\* PCH starts from PCH_NOT_READY and is behind the worker when it ends.
C34_PchBeforeDrain ==
    /\ [](wpc \in DrainLoop => pch_status = PCH_SUCCESS)
    /\ [][(w_dequeue \/ w_compile \/ w_cc) => pch_status = PCH_SUCCESS]_vars
    /\ [][PchProgress' >= PchProgress]_vars
    /\ [][pch_exec => (pch_status = PCH_NOT_READY /\ PchProgress' > PchProgress)]_vars

\* A unit was enqueued while the PCH was being built, the build failed and
\* the worker has returned: the unit is still queued.
C34_Witness ==
    /\ pch_status = PCH_FAILED
    /\ wpc = "w_done"
    /\ unit_queue # NULL

\* ------------------------------------------- exec_process, statement by statement
\* The status of a process that ended: it exited with a status up to
\* MaxExitStatus or was killed by a signal.
TerminationStatuses == { <<"exited", c>> : c \in 0..MaxExitStatus } \cup { <<"signaled", 0>> }

\* What the int stat of exec_process can hold: a termination status, or a
\* value that is none (a stopped process, or whatever the unassigned variable
\* holds).
StatValues == TerminationStatuses \cup { <<"other", 0>> }

WIFEXITED(stat) == stat[1] = "exited"

WEXITSTATUS(stat) == stat[2]

WIFSIGNALED(stat) == stat[1] = "signaled"

\* start_process: the pid vfork returns to the parent, -1 when no process
\* could be created. An execvp that fails ends the child with _exit(1).
start_process(spawned) == IF spawned THEN 1 ELSE -1

\* exec_process up to its loop: start_process and the test of pid. stat is
\* declared without a value, so it holds any.
exec_process_start ==
    /\ proc.pc = "idle"
    /\ \E spawned \in BOOLEAN : \E garbage \in StatValues :
          LET pid == start_process(spawned)
          IN  proc' = IF pid <= 0
                      THEN [proc EXCEPT !.pc = "returned", !.pid = pid, !.exit_code = -1]
                      ELSE [proc EXCEPT !.pc = "waitpid", !.pid = pid, !.stat = garbage,
                                        !.child = "running"]
    /\ UNCHANGED <<engine_vars, body_vars, worker_vars, mutator_vars, history_vars,
                   file_vars, translator_vars, callers>>

\* The child ends: it exits or is killed by a signal.
child_ends ==
    /\ proc.child = "running"
    /\ \E s \in TerminationStatuses :
          proc' = [proc EXCEPT !.child = "ended", !.status = s]
    /\ UNCHANGED <<engine_vars, body_vars, worker_vars, mutator_vars, history_vars,
                   file_vars, translator_vars, callers>>

\* The status of the ended child is collected outside exec_process: the host
\* program ignores SIGCHLD, or another thread of the process waits for any
\* child.
child_collected ==
    /\ proc.child = "ended"
    /\ proc.pc \in {"waitpid", "test"}
    /\ proc' = [proc EXCEPT !.child = "collected"]
    /\ UNCHANGED <<engine_vars, body_vars, worker_vars, mutator_vars, history_vars,
                   file_vars, translator_vars, callers>>

\* waitpid(pid, &stat, 0), whose result is not looked at: it stores the status
\* of the ended child; it fails with EINTR when a signal interrupts the wait
\* for the running child and with ECHILD when there is no child to wait for,
\* and a failing call leaves stat as it was.
exec_process_waitpid ==
    /\ proc.pc = "waitpid"
    /\ proc' = IF proc.child = "ended"
               THEN [proc EXCEPT !.pc = "test", !.stat = proc.status, !.child = "collected"]
               ELSE [proc EXCEPT !.pc = "test"]
    /\ UNCHANGED <<engine_vars, body_vars, worker_vars, mutator_vars, history_vars,
                   file_vars, translator_vars, callers>>

\* The tests of the loop: leave it with the exit status or with -1, or go
\* round again.
exec_process_test ==
    /\ proc.pc = "test"
    /\ proc' = IF WIFEXITED(proc.stat)
               THEN [proc EXCEPT !.pc = "returned", !.exit_code = WEXITSTATUS(proc.stat)]
               ELSE IF WIFSIGNALED(proc.stat)
               THEN [proc EXCEPT !.pc = "returned", !.exit_code = -1]
               ELSE [proc EXCEPT !.pc = "waitpid"]
    /\ UNCHANGED <<engine_vars, body_vars, worker_vars, mutator_vars, history_vars,
                   file_vars, translator_vars, callers>>

\* exec_process has returned and its caller has used the value; the worker
\* calls it again for the next unit.
exec_process_return ==
    /\ proc.pc = "returned"
    /\ proc.child # "running"
    /\ proc' = NoProcess
    /\ UNCHANGED <<engine_vars, body_vars, worker_vars, mutator_vars, history_vars,
                   file_vars, translator_vars, callers>>

ExecNext ==
    \/ exec_process_start
    \/ child_ends
    \/ child_collected
    \/ exec_process_waitpid
    \/ exec_process_test
    \/ exec_process_return

\* The worker thread keeps running and a started compiler ends.
ExecSpec ==
    /\ Init
    /\ [][ExecNext]_vars
    /\ WF_vars(exec_process_waitpid)
    /\ WF_vars(exec_process_test)
    /\ WF_vars(child_ends)

\* C35: exec_process returns the exit status of a child that exited and -1
\* for a child killed by a signal and for a child that could not be started,
\* and once the child has ended exec_process returns, whatever waitpid
\* reported.
C35_ExecProcessResult ==
    /\ []((proc.pc = "returned" /\ proc.pid <= 0) => proc.exit_code = -1)
    /\ []((proc.pc = "returned" /\ proc.child \in {"ended", "collected"})
            => proc.exit_code = IF WIFEXITED(proc.status)
                                THEN WEXITSTATUS(proc.status) ELSE -1)
    /\ (proc.child \in {"ended", "collected"}) ~> (proc.pc = "returned")

\* The units on the list that starts at unit_queue, head first.
Queued == QueueSeq(units, unit_queue, MaxUnits)

\* The worker holds a unit it has dequeued.
Processing ==
    wpc \in {"w_gc_wait", "w_compile", "w_after_compile", "w_cc", "w_load", "w_publish"}

\* C36: the list that starts at unit_queue is always a well-formed doubly
\* linked list; add_to_unit_queue puts its unit behind the units already
\* queued and get_from_unit_queue takes its unit out and leaves the others
\* in their order, so the list holds the units enqueued and not yet dequeued
\* in insertion order; a dequeued unit is not on the list again: the unit
\* the worker holds is not queued and is not the unit of the next dequeue.
C36_QueueWellFormed ==
    /\ [](WellFormed(units, unit_queue))
    /\ [][(add_enqueue /\ mpc' = "ready") => Queued' = Append(Queued, m_unit)]_vars
    /\ [][(w_dequeue /\ wpc' = "w_gc_wait")
            => Queued' = SelectSeq(Queued, LAMBDA u : u # w_unit')]_vars
    /\ [](Processing => \A i \in 1..Len(Queued) : Queued[i] # w_unit)
    /\ [][(w_dequeue /\ wpc' = "w_gc_wait") => w_unit' # w_unit]_vars

\* ------------------------------- mjit_add_iseq_to_process in another thread
\* Thread t calls mjit_add_iseq_to_process(iseq): the test of mjit_init_p.
call_add(t) ==
    /\ callers[t].pc = "idle"
    /\ ~crashed
    /\ \E b \in Bodies :
          /\ alive[b]
          /\ callers' = [callers EXCEPT ![t] =
                            IF mjit_init_p
                            THEN [pc |-> "create_unit", iseq |-> b, num |-> 0, unit |-> NULL]
                            ELSE [NoCall EXCEPT !.pc = "returned"]]
    /\ UNCHANGED <<engine_vars, body_vars, worker_vars, mutator_vars, history_vars,
                   file_vars, translator_vars, proc>>

\* create_unit in thread t: ZALLOC and the read of current_unit_num in
\* current_unit_num++. When ZALLOC fails create_unit returns and the caller
\* reads iseq->body->jit_unit.
create_unit_read(t) ==
    /\ callers[t].pc = "create_unit"
    /\ ~crashed
    /\ \E alloc_ok \in BOOLEAN :
          LET c == callers[t]
          IN  callers' = [callers EXCEPT ![t] =
                             IF alloc_ok
                             THEN [c EXCEPT !.pc = "create_unit_store",
                                            !.num = current_unit_num]
                             ELSE IF jit_unit[c.iseq] = NULL
                             THEN [NoCall EXCEPT !.pc = "returned"]
                             ELSE [c EXCEPT !.pc = "add_enqueue",
                                            !.unit = jit_unit[c.iseq]]]
    /\ UNCHANGED <<engine_vars, body_vars, worker_vars, mutator_vars, history_vars,
                   file_vars, translator_vars, proc>>

\* create_unit in thread t: the store of current_unit_num++, unit->id,
\* unit->iseq and iseq->body->jit_unit, then the caller's read of the slot.
create_unit_store(t) ==
    /\ callers[t].pc = "create_unit_store"
    /\ ~crashed
    /\ current_unit_num' = callers[t].num + 1
    /\ units' = [units EXCEPT ![t] = [ZeroUnit EXCEPT !.id = callers[t].num,
                                                      !.iseq = callers[t].iseq]]
    /\ jit_unit' = [jit_unit EXCEPT ![callers[t].iseq] = t]
    /\ callers' = [callers EXCEPT ![t] = [callers[t] EXCEPT !.pc = "add_enqueue",
                                                             !.unit = t]]
    /\ UNCHANGED <<mjit_init_p, pch_status, unit_queue, in_gc, in_jit, finish_worker_p,
                   worker_finished, mutex, destroyed>>
    /\ UNCHANGED <<jit_func, alive, gc_running>>
    /\ UNCHANGED <<worker_vars, mutator_vars, history_vars, file_vars, translator_vars,
                   proc>>

\* The critical section of mjit_add_iseq_to_process in thread t:
\* add_to_unit_queue and the broadcast on mjit_worker_wakeup. The mutex is
\* misused when mjit_finish has destroyed it.
caller_enqueue(t) ==
    /\ callers[t].pc = "add_enqueue"
    /\ ~crashed
    /\ mutex = "free"
    /\ mutex_misuse' = (mutex_misuse \/ destroyed)
    /\ LET r == add_to_unit_queue(units, unit_queue, callers[t].unit)
       IN  IF r.hang
           THEN /\ mutex' = "mutator"
                /\ callers' = [callers EXCEPT ![t] = [callers[t] EXCEPT !.pc = "hung"]]
                /\ UNCHANGED <<units, unit_queue, w_asleep>>
           ELSE /\ units' = r.units
                /\ unit_queue' = r.queue
                /\ w_asleep' = Wake(wpc, "w_dequeue", w_asleep)
                /\ callers' = [callers EXCEPT ![t] = [NoCall EXCEPT !.pc = "returned"]]
                /\ UNCHANGED mutex
    /\ UNCHANGED <<mjit_init_p, pch_status, current_unit_num, in_gc, in_jit,
                   finish_worker_p, worker_finished, destroyed>>
    /\ UNCHANGED <<body_vars, mutator_vars, crashed, gets_after_finish>>
    /\ UNCHANGED <<wpc, w_unit, w_func, w_success, w_exit_code, w_stage>>
    /\ UNCHANGED <<file_vars, translator_vars, proc>>

CallerStep ==
    \E t \in CallerThreads :
        \/ call_add(t)
        \/ create_unit_read(t)
        \/ create_unit_store(t)
        \/ caller_enqueue(t)

\* One thread starts and ends the engine while the other threads of the host
\* call mjit_add_iseq_to_process and the worker runs.
ThreadsNext ==
    \/ mjit_init
    \/ mjit_finish
    \/ finish_wait_pch
    \/ finish_stop
    \/ finish_poll
    \/ finish_broadcast
    \/ finish_destroy
    \/ finish_cleanup
    \/ WorkerStep
    \/ CallerStep

ThreadsSpec == Init /\ [][ThreadsNext]_vars

\* ---------------------------------------------------------------- file names
\* A string is the sequence of its characters. The decimal digits sprintf
\* prints for %lu and %d of a number that is not negative.
DigitChars == <<"0", "1", "2", "3", "4", "5", "6", "7", "8", "9">>

RECURSIVE Decimal(_)
Decimal(n) ==
    IF n < 10 THEN <<DigitChars[n + 1]>>
    ELSE Decimal(n \div 10) \o <<DigitChars[(n % 10) + 1]>>

\* getpid(): the id of the process, the same in every call.
getpid == 45

\* sprint_uniq_filename(str, id, prefix, suffix): what it prints to str.
sprint_uniq_filename(id, prefix, suffix) ==
    <<"/", "t", "m", "p", "/">> \o prefix \o <<"p">> \o Decimal(getpid)
        \o <<"u">> \o Decimal(id) \o suffix

\* The names convert_unit_to_func gives the files and the function of a
\* unit, and the name mjit_init gives the PCH file.
unit_c_file(id) == sprint_uniq_filename(id, <<"_", "m", "j", "i", "t">>, <<".", "c">>)

unit_so_file(id) == sprint_uniq_filename(id, <<"_", "m", "j", "i", "t">>, <<".", "s", "o">>)

unit_funcname(id) == <<"_", "m", "j", "i", "t">> \o Decimal(id)

pch_file_name ==
    sprint_uniq_filename(0, <<"_", "m", "j", "i", "t", "_", "h">>,
                         <<".", "h", ".", "g", "c", "h">>)

\* The units create_unit has filled in.
CreatedUnits == { u \in UnitAddrs : units[u] # ZeroUnit }

\* C37: the ids of the units created during a run are pairwise distinct,
\* with calls of mjit_add_iseq_to_process from several threads as well, so
\* two units never have the same .c file, .so file or function name, no file
\* of one unit is a file of another, and no file of a unit is the PCH file.
C37_UnitIdsDistinct ==
    \A u, v \in CreatedUnits :
        /\ u # v =>
             /\ units[u].id # units[v].id
             /\ unit_c_file(units[u].id) # unit_c_file(units[v].id)
             /\ unit_so_file(units[u].id) # unit_so_file(units[v].id)
             /\ unit_funcname(units[u].id) # unit_funcname(units[v].id)
             /\ unit_c_file(units[u].id) # unit_so_file(units[v].id)
        /\ unit_c_file(units[u].id) # pch_file_name
        /\ unit_so_file(units[u].id) # pch_file_name

\* The steps that lock mjit_engine_mutex, unlock it, or wait on, signal or
\* broadcast one of the condition variables.
UsesMutex ==
    \/ add_enqueue
    \/ gc_start_wait
    \/ gc_finish_cs
    \/ free_cs
    \/ finish_wait_pch
    \/ finish_broadcast
    \/ pch_args_failed
    \/ pch_done
    \/ fail_lock
    \/ fail_unlock
    \/ w_dequeue
    \/ w_gc_wait
    \/ w_after_compile
    \/ w_publish
    \/ end_lock
    \/ end_unlock
    \/ \E t \in CallerThreads : caller_enqueue(t)

\* C38: once mjit_finish has destroyed the mutex and the condition
\* variables no thread uses them: a call of mjit_add_iseq_to_process made by
\* another thread during or after mjit_finish does not reach its critical
\* section, and the worker takes no step on them.
C38_NoUseAfterDestroy ==
    [][UsesMutex => ~destroyed]_vars

====
